---- MODULE Spec2Model ----
(***************************************************************************)
(* Event cleaning and aggregation pipeline of the ActivityWatch JSON       *)
(* tools: deduplicate_simultaneous_events, merge_consecutive_events and    *)
(* filter_events of aw_clean.py, analyze_events of aw_analyze.py.          *)
(*                                                                         *)
(* An event is a record whose optional keys (duration, data, data.app,     *)
(* data.title, ...) may be absent, as in the JSON input.  A timestamp      *)
(* string is a record of its lexical parts [date, hour, sec, zone]; two    *)
(* timestamps are the same string iff the records are equal, while the     *)
(* parsed instant forgets the spelling of the zone.  Durations and         *)
(* instants are whole seconds.                                             *)
(***************************************************************************)
EXTENDS Integers, Sequences, FiniteSets, TLC

VARIABLES
    input,          \* the event list as decoded from JSON (never changes)
    events,         \* the caller's list of event objects
    config,         \* the filter options of the call
    pc,             \* position inside the running function
    filtered,       \* filter_events: the local `filtered`
    sorted_events,  \* merge: sorted list, as indices of objects of `events`
    current,        \* merge: the accumulator (a shallow copy)
    cur_src,        \* merge: index of the object whose data dict current shares
    next_idx,       \* merge: loop position in sorted_events
    merged,         \* merge: the output list
    steps,          \* ActivityWatchCleaner.filter_events: the audit log
    result          \* return value of the function a specification runs

vars == <<input, events, config, pc, filtered, sorted_events, current,
          cur_src, next_idx, merged, steps, result>>

mergeVars == <<sorted_events, current, cur_src, next_idx, merged>>

-----------------------------------------------------------------------------
(* Bounds of the model *)

MaxLen == 3
MaxSec == 2
\* bits of the significand of the floating-point durations of the analysis
MantissaBits == 3

(* Program constants *)

DefaultMinDuration == 2
DefaultMaxGap == 30

-----------------------------------------------------------------------------
(* Python helpers *)

\* dict.get(key, default)
Get(d, key, default) == IF key \in DOMAIN d THEN d[key] ELSE default

\* the value dict.get(key) yields for an absent key
None == "<None>"

\* the empty dict {}
EmptyDict == [k \in {} |-> None]

\* d[key] = value on a dict
SetKey(d, key, value) ==
    [k \in DOMAIN d \cup {key} |-> IF k = key THEN value ELSE d[k]]

Range(s) == {s[i] : i \in 1..Len(s)}

RECURSIVE SumSeq(_)
SumSeq(s) == IF s = <<>> THEN 0 ELSE Head(s) + SumSeq(Tail(s))

\* event.get('duration', 0)
Duration(e) == Get(e, "duration", 0)

\* event.get('data', {}).get('app')
AppOf(e) == Get(Get(e, "data", EmptyDict), "app", None)

\* event.get('data', {}).get('title', '')
TitleOf(e) == Get(Get(e, "data", EmptyDict), "title", "")

-----------------------------------------------------------------------------
(* Timestamps *)

ZoneOffset(zone) == IF zone = "+01:00" THEN 3600 ELSE 0

\* the UTC offsets a timestamp may end with; any other ending, and an hour
\* outside 0..23, makes the string unparseable
ValidZones == {"Z", "+00:00", "+01:00"}

\* datetime.fromisoformat and dateutil's parser.parse accept the string
\* (both raise ValueError otherwise)
Parses(ts) == ts.zone \in ValidZones /\ ts.hour \in 0..23

\* datetime.fromisoformat(ts.replace('Z', '+00:00')), as seconds
ParseInstant(ts) ==
    LET z == IF ts.zone = "Z" THEN "+00:00" ELSE ts.zone
    IN  ((ts.date * 24 + ts.hour) * 3600 + ts.sec) - ZoneOffset(z)

Start(e) == ParseInstant(e.timestamp)

Stamp(d, h, s, z) == [date |-> d, hour |-> h, sec |-> s, zone |-> z]

-----------------------------------------------------------------------------
(* deduplicate_simultaneous_events *)

\* the keys of `grouped` in insertion order: each timestamp string once, in
\* the order of its first occurrence
RECURSIVE GroupKeys(_, _)
GroupKeys(evs, seen) ==
    IF evs = <<>> THEN seen
    ELSE GroupKeys(Tail(evs),
                   IF Head(evs).timestamp \in Range(seen) THEN seen
                   ELSE Append(seen, Head(evs).timestamp))

\* grouped[timestamp]: the positions of the events of that timestamp string,
\* in input order
GroupPos(evs, ts) ==
    SelectSeq([i \in 1..Len(evs) |-> i], LAMBDA i : evs[i].timestamp = ts)

\* max(group, key=lambda e: e.get('duration', 0)): the first maximal element
RECURSIVE MaxFrom(_, _, _, _)
MaxFrom(evs, group, k, best) ==
    IF k > Len(group) THEN best
    ELSE MaxFrom(evs, group, k + 1,
                 IF Duration(evs[group[k]]) > Duration(evs[best])
                 THEN group[k] ELSE best)

\* mutant: a later event of equal duration replaces the best one
LongestPos_LastWins(evs, group) ==
    LET top == MaxFrom(evs, group, 2, group[1])
        ties == SelectSeq(group, LAMBDA i : Duration(evs[i]) = Duration(evs[top]))
    IN  ties[Len(ties)]

LongestPos(evs, group) == MaxFrom(evs, group, 2, group[1])

\* mutant: the else is missing, a single event is appended and then the
\* longest one is appended too
KeptPos_NoElse(evs, group) ==
    (IF Len(group) = 1 THEN <<group[1]>> ELSE <<>>) \o <<LongestPos(evs, group)>>

\* what one group appends to `deduplicated`
KeptPos(evs, group) ==
    IF Len(group) = 1 THEN <<group[1]>> ELSE <<LongestPos(evs, group)>>

RECURSIVE DedupeGroups(_, _)
DedupeGroups(evs, keys) ==
    IF keys = <<>> THEN <<>>
    ELSE KeptPos(evs, GroupPos(evs, Head(keys))) \o DedupeGroups(evs, Tail(keys))

\* the positions of the events the function returns, in output order
DedupePositions(evs) == DedupeGroups(evs, GroupKeys(evs, <<>>))

\* timestamp = event['timestamp'] raises KeyError for an event without one
DedupeRaises(evs) == \E i \in 1..Len(evs) : "timestamp" \notin DOMAIN evs[i]

\* the function's return value: the kept event objects themselves, or
\* "KeyError" when it raises
deduplicate_simultaneous_events(evs) ==
    IF DedupeRaises(evs) THEN "KeyError"
    ELSE LET keep == DedupePositions(evs)
         IN  [k \in 1..Len(keep) |-> evs[keep[k]]]

-----------------------------------------------------------------------------
(* merge_consecutive_events *)

\* mutant: the sort is not stable, equal instants come out in reverse order
RECURSIVE InsertSorted_Unstable(_, _, _)
InsertSorted_Unstable(evs, srt, i) ==
    IF srt = <<>> THEN <<i>>
    ELSE IF Start(evs[i]) <= Start(evs[Head(srt)])
         THEN <<i>> \o srt
         ELSE <<Head(srt)>> \o InsertSorted_Unstable(evs, Tail(srt), i)

\* sorted(range, key=instant): stable insertion of index i into a sorted list
RECURSIVE InsertSorted(_, _, _)
InsertSorted(evs, srt, i) ==
    IF srt = <<>> THEN <<i>>
    ELSE IF Start(evs[i]) < Start(evs[Head(srt)])
         THEN <<i>> \o srt
         ELSE <<Head(srt)>> \o InsertSorted(evs, Tail(srt), i)

RECURSIVE SortFrom(_, _, _)
SortFrom(evs, srt, i) ==
    IF i > Len(evs) THEN srt
    ELSE SortFrom(evs, InsertSorted(evs, srt, i), i + 1)

\* the indices of evs in ascending order of parsed timestamp, stable
SortedIndices(evs) == SortFrom(evs, <<>>, 1)

\* gap = (next_start - current_end).total_seconds()
Gap(cur, nxt) == Start(nxt) - (Start(cur) + Duration(cur))

\* mutant: 0 < gap instead of 0 <= gap
CanMerge_StrictGap(cur, nxt, max_gap) ==
    /\ AppOf(cur) = AppOf(nxt)
    /\ 0 < Gap(cur, nxt)
    /\ Gap(cur, nxt) <= max_gap

\* current_app == next_app and 0 <= gap <= max_gap_seconds
CanMerge(cur, nxt, max_gap) ==
    /\ AppOf(cur) = AppOf(nxt)
    /\ 0 <= Gap(cur, nxt)
    /\ Gap(cur, nxt) <= max_gap

\* mutant: the two durations added, the gap between them left out
MergedDuration_NoGap(cur, nxt) == Duration(cur) + Duration(nxt)

\* current['duration'] = (next_end - current_start).total_seconds()
MergedDuration(cur, nxt) == (Start(nxt) + Duration(nxt)) - Start(cur)

\* len(next_title) > len(current_title)
TitleReplaced(cur, nxt) == Len(TitleOf(nxt)) > Len(TitleOf(cur))

\* current['data']['title'] raises KeyError when current has no data
AbsorbRaises(cur, nxt) == TitleReplaced(cur, nxt) /\ "data" \notin DOMAIN cur

\* the accumulator after the merge branch
Absorb(cur, nxt) ==
    LET c1 == SetKey(cur, "duration", MergedDuration(cur, nxt))
    IN  IF TitleReplaced(cur, nxt)
        THEN SetKey(c1, "data", SetKey(c1.data, "title", TitleOf(nxt)))
        ELSE c1

\* mutant: the last accumulator is never appended
EmitLast_Forgotten(out, cur) == out

\* merged.append(current) after the loop
EmitLast(out, cur) == Append(out, cur)

\* mutant: the accumulator is a deep copy, the caller's objects are untouched
WriteTitle_DeepCopy(heap, src, cur, nxt) == heap

\* the caller's event objects after the title write of a merge: the copy in
\* `current` is shallow, so current['data'] is the dict of the object at src
WriteTitle(heap, src, cur, nxt) ==
    IF TitleReplaced(cur, nxt)
    THEN [heap EXCEPT ![src] = SetKey(@, "data", Absorb(cur, nxt).data)]
    ELSE heap

\* the loop over sorted_events[1:], from position i: the list returned (or
\* "KeyError" when it raises) and the caller's objects afterwards
RECURSIVE MergeLoop(_, _, _, _, _, _, _)
MergeLoop(heap, srt, i, cur, src, out, max_gap) ==
    IF i > Len(srt) THEN [out |-> EmitLast(out, cur), heap |-> heap]
    ELSE LET nxt == heap[srt[i]]
         IN  IF CanMerge(cur, nxt, max_gap)
             THEN IF AbsorbRaises(cur, nxt)
                  THEN [out |-> "KeyError", heap |-> heap]
                  ELSE MergeLoop(WriteTitle(heap, src, cur, nxt), srt, i + 1,
                                 Absorb(cur, nxt), src, out, max_gap)
             ELSE MergeLoop(heap, srt, i + 1, nxt, srt[i], Append(out, cur), max_gap)

\* mutant: the sort key never raises
SortRaises_Never(evs) == None

\* the exception the sort key raises on the first event it cannot parse:
\* KeyError for a missing timestamp, ValueError for an unparseable one
SortRaises(evs) ==
    LET bad == {i \in 1..Len(evs) :
                   \/ "timestamp" \notin DOMAIN evs[i]
                   \/ ~Parses(evs[i].timestamp)}
    IN  IF bad = {} THEN None
        ELSE LET i == CHOOSE i \in bad : \A j \in bad : i <= j
             IN  IF "timestamp" \notin DOMAIN evs[i] THEN "KeyError"
                 ELSE "ValueError"

\* one call: what it returns and what it leaves in the caller's list
MergeCall(evs, max_gap) ==
    IF evs = <<>> THEN [out |-> <<>>, heap |-> evs]
    ELSE IF SortRaises(evs) # None THEN [out |-> SortRaises(evs), heap |-> evs]
    ELSE LET srt == SortedIndices(evs)
         IN  MergeLoop(evs, srt, 2, evs[srt[1]], srt[1], <<>>, max_gap)

\* the function's return value
merge_consecutive_events(evs, max_gap) == MergeCall(evs, max_gap).out

-----------------------------------------------------------------------------
(* filter_events *)

\* e.get('duration', 0) > 0
KeepsNonZero(e) == Duration(e) > 0

\* mutant: > instead of >=, an event exactly at the minimum is dropped
KeepsMinDuration_Strict(e, min_duration) == Duration(e) > min_duration

\* e.get('duration', 0) >= min_duration_seconds
KeepsMinDuration(e, min_duration) == Duration(e) >= min_duration

\* mutant: the default list is forgotten, None excludes nothing
ExcludeList_NoDefaults(exclude_apps) ==
    IF exclude_apps = None THEN <<>> ELSE exclude_apps

\* if exclude_apps is None: the three system apps
ExcludeList(exclude_apps) ==
    IF exclude_apps = None THEN
        <<"UserNotificationCenter", "loginwindow", "CoreServicesUIAgent">>
    ELSE exclude_apps

\* e.get('data', {}).get('app') not in exclude_apps
KeepsApp(e, exclude_list) == AppOf(e) \notin Range(exclude_list)

\* mutant: simultaneous events are deduplicated before the thresholds
FilterPasses_DedupeFirst == <<"dedupe", "zero", "min", "exclude">>

\* the passes ahead of the merge, in the order of the function body
FilterPasses == <<"zero", "min", "exclude", "dedupe">>

\* the statement that follows pass p
After(p) ==
    LET k == CHOOSE i \in 1..Len(FilterPasses) : FilterPasses[i] = p
    IN  IF k = Len(FilterPasses) THEN "merge" ELSE FilterPasses[k + 1]

\* the events a list of references denotes
Deref(heap, refs) == [k \in 1..Len(refs) |-> heap[refs[k]]]

-----------------------------------------------------------------------------
(* Floating-point addition: durations are Python floats, and every sum of   *)
(* analyze_events is rounded to the significand, to nearest, ties to even   *)

RECURSIVE Pow2(_)
Pow2(n) == IF n = 0 THEN 1 ELSE 2 * Pow2(n - 1)

\* the spacing of the floats around n >= 0
RECURSIVE Ulp(_, _)
Ulp(n, unit) == IF n < unit * Pow2(MantissaBits) THEN unit ELSE Ulp(n, 2 * unit)

RoundFloat(n) ==
    LET unit == Ulp(n, 1)
        q == n \div unit
        r == n % unit
    IN  IF 2 * r < unit THEN q * unit
        ELSE IF 2 * r > unit THEN (q + 1) * unit
        ELSE IF q % 2 = 0 THEN q * unit ELSE (q + 1) * unit

\* a + b on floats
FloatAdd(a, b) == RoundFloat(a + b)

\* sum(...) and +=, left to right from 0
RECURSIVE FloatSumFrom(_, _, _)
FloatSumFrom(s, i, acc) ==
    IF i > Len(s) THEN acc ELSE FloatSumFrom(s, i + 1, FloatAdd(acc, s[i]))

FloatSum(s) == FloatSumFrom(s, 1, 0)

-----------------------------------------------------------------------------
(* analyze_events: a grouping is a dict in insertion order, modelled as the  *)
(* sequence of its entries [key, duration, events]                           *)

\* event.get('data', {}).get('app', 'Unknown')
AppKey(e) == Get(Get(e, "data", EmptyDict), "app", "Unknown")

\* event.get('device', event.get('data', {}).get('hostname', 'Unknown'))
DeviceKey(e) == Get(e, "device", Get(Get(e, "data", EmptyDict), "hostname", "Unknown"))

\* event['timestamp'][:10]
DailyKey(e) == e.timestamp.date

\* event['timestamp'][11:13]
HourlyKey(e) == e.timestamp.hour

\* event.get('data', {}).get('url')
UrlOf(e) == Get(Get(e, "data", EmptyDict), "url", None)

\* mutant: url is not None, an empty url counts
HasUrl_NotNone(e) == UrlOf(e) # None

\* if url: (a missing or empty url is false)
HasUrl(e) == UrlOf(e) # None /\ UrlOf(e) # ""

\* event.get('data', {}).get('title', 'Unknown Title')
UrlTitle(e) == Get(Get(e, "data", EmptyDict), "title", "Unknown Title")

\* mutant: the event that creates a bucket is counted but its duration is
\* not added
Bump_FirstDropped(acc, key, d) ==
    IF \E j \in 1..Len(acc) : acc[j].key = key
    THEN LET j == CHOOSE j \in 1..Len(acc) : acc[j].key = key
         IN  [acc EXCEPT ![j].duration = FloatAdd(@, d), ![j].events = @ + 1]
    ELSE Append(acc, [key |-> key, duration |-> 0, events |-> 1])

\* usage[key]['duration'] += d; usage[key]['events'] += 1 on a defaultdict
Bump(acc, key, d) ==
    IF \E j \in 1..Len(acc) : acc[j].key = key
    THEN LET j == CHOOSE j \in 1..Len(acc) : acc[j].key = key
         IN  [acc EXCEPT ![j].duration = FloatAdd(@, d), ![j].events = @ + 1]
    ELSE Append(acc, [key |-> key, duration |-> FloatAdd(0, d), events |-> 1])

\* one grouping loop over (key, duration) pairs
RECURSIVE Tally(_, _, _, _)
Tally(keys, durs, i, acc) ==
    IF i > Len(keys) THEN acc
    ELSE Tally(keys, durs, i + 1, Bump(acc, keys[i], durs[i]))

AppUsage(evs) ==
    Tally([i \in 1..Len(evs) |-> AppKey(evs[i])],
          [i \in 1..Len(evs) |-> Duration(evs[i])], 1, <<>>)

DeviceUsage(evs) ==
    Tally([i \in 1..Len(evs) |-> DeviceKey(evs[i])],
          [i \in 1..Len(evs) |-> Duration(evs[i])], 1, <<>>)

DailyUsage(evs) ==
    Tally([i \in 1..Len(evs) |-> DailyKey(evs[i])],
          [i \in 1..Len(evs) |-> Duration(evs[i])], 1, <<>>)

HourlyUsage(evs) ==
    Tally([i \in 1..Len(evs) |-> HourlyKey(evs[i])],
          [i \in 1..Len(evs) |-> Duration(evs[i])], 1, <<>>)

\* the url loop: duration, events and the longest title
BumpUrl(acc, e) ==
    LET key == UrlOf(e)
        acc1 == IF \E j \in 1..Len(acc) : acc[j].key = key THEN acc
                ELSE Append(acc, [key |-> key, duration |-> 0, events |-> 0,
                                  title |-> ""])
        j == CHOOSE j \in 1..Len(acc1) : acc1[j].key = key
    IN  [acc1 EXCEPT ![j].duration = FloatAdd(@, Duration(e)),
                     ![j].events = @ + 1,
                     ![j].title = IF Len(UrlTitle(e)) > Len(@) THEN UrlTitle(e) ELSE @]

RECURSIVE UrlUsageFrom(_, _, _)
UrlUsageFrom(evs, i, acc) ==
    IF i > Len(evs) THEN acc
    ELSE UrlUsageFrom(evs, i + 1, IF HasUrl(evs[i]) THEN BumpUrl(acc, evs[i]) ELSE acc)

UrlUsage(evs) == UrlUsageFrom(evs, 1, <<>>)

\* the order of two timestamp strings: '+' sorts before 'Z'
ZoneRank(zone) ==
    CASE zone = "+00:00" -> 0
      [] zone = "+01:00" -> 1
      [] zone = "Z"      -> 3
      [] OTHER           -> 2

StampLeq(a, b) ==
    LET ka == <<a.date, a.hour, a.sec, ZoneRank(a.zone)>>
        kb == <<b.date, b.hour, b.sec, ZoneRank(b.zone)>>
    IN  \/ ka = kb
        \/ \E n \in 1..4 : /\ \A m \in 1..(n - 1) : ka[m] = kb[m]
                           /\ ka[n] < kb[n]

\* min(timestamps), max(timestamps) of the events that have a timestamp
DateRange(evs) ==
    LET stamps == {evs[i].timestamp : i \in {k \in 1..Len(evs) : "timestamp" \in DOMAIN evs[k]}}
    IN  IF stamps = {} THEN EmptyDict
        ELSE [start |-> CHOOSE a \in stamps : \A b \in stamps : StampLeq(a, b),
              end   |-> CHOOSE a \in stamps : \A b \in stamps : StampLeq(b, a)]

\* mutant: the analysis of no events has a date range with empty bounds
analyze_events_EmptyRange(evs) ==
    IF evs = <<>>
    THEN [total_events |-> 0, total_duration |-> 0, apps |-> <<>>, devices |-> <<>>,
          daily |-> <<>>, hourly |-> <<>>, urls |-> <<>>, date_range |-> [start |-> None, end |-> None]]
    ELSE [total_events   |-> Len(evs),
          total_duration |-> FloatSum([i \in 1..Len(evs) |-> Duration(evs[i])]),
          apps           |-> AppUsage(evs),
          devices        |-> DeviceUsage(evs),
          daily          |-> DailyUsage(evs),
          hourly         |-> HourlyUsage(evs),
          urls           |-> UrlUsage(evs),
          date_range     |-> DateRange(evs)]

analyze_events(evs) ==
    IF evs = <<>>
    THEN [total_events |-> 0, total_duration |-> 0, apps |-> <<>>, devices |-> <<>>,
          daily |-> <<>>, hourly |-> <<>>, urls |-> <<>>, date_range |-> EmptyDict]
    ELSE [total_events   |-> Len(evs),
          total_duration |-> FloatSum([i \in 1..Len(evs) |-> Duration(evs[i])]),
          apps           |-> AppUsage(evs),
          devices        |-> DeviceUsage(evs),
          daily          |-> DailyUsage(evs),
          hourly         |-> HourlyUsage(evs),
          urls           |-> UrlUsage(evs),
          date_range     |-> DateRange(evs)]

-----------------------------------------------------------------------------
(* Inputs *)

\* the keyword defaults of filter_events
DefaultConfig ==
    [min_duration_seconds     |-> DefaultMinDuration,
     exclude_apps             |-> None,
     remove_zero_duration     |-> TRUE,
     deduplicate_simultaneous |-> TRUE,
     merge_consecutive        |-> TRUE,
     max_gap_seconds          |-> DefaultMaxGap]

SeqsUpTo(S, n) == UNION {[1..k -> S] : k \in 0..n}

\* window events of one hour, at second 0..MaxSec: two titles of one app,
\* another app, an event with neither duration nor data, and an event whose
\* data has a title but no app
MergeEvents ==
    UNION {
      {[timestamp |-> Stamp(1, 10, s, "+00:00"), duration |-> 1,
        data |-> [app |-> "Code", title |-> "a"]],
       [timestamp |-> Stamp(1, 10, s, "Z"), duration |-> 2,
        data |-> [app |-> "Code", title |-> "bb"]],
       [timestamp |-> Stamp(1, 10, s, "+00:00"), duration |-> 1,
        data |-> [app |-> "Mail", title |-> "a"]],
       [timestamp |-> Stamp(1, 10, s, "+00:00")],
       [timestamp |-> Stamp(1, 10, s, "Z"), duration |-> 1,
        data |-> [title |-> "bb"]]}
      : s \in 0..MaxSec}

MergeGaps == {0, 1}

-----------------------------------------------------------------------------
(* merge_consecutive_events, one loop iteration per step *)

InitMerge ==
    /\ input \in SeqsUpTo(MergeEvents, MaxLen)
    /\ events = input
    /\ config \in {[DefaultConfig EXCEPT !.max_gap_seconds = g] : g \in MergeGaps}
    /\ pc = "start"
    /\ filtered = <<>>
    /\ sorted_events = <<>>
    /\ current = EmptyDict
    /\ cur_src = 0
    /\ next_idx = 0
    /\ merged = <<>>
    /\ result = None
    /\ steps = <<>>

\* if not events: return []; else sort and take the first event's copy
MergeStart ==
    /\ pc = "start"
    /\ IF events = <<>>
       THEN /\ result' = <<>>
            /\ pc' = "done"
            /\ UNCHANGED mergeVars
       ELSE IF SortRaises(events) # None
       THEN /\ result' = SortRaises(events)
            /\ pc' = "error"
            /\ UNCHANGED mergeVars
       ELSE LET srt == SortedIndices(events)
            IN  /\ sorted_events' = srt
                /\ current' = events[srt[1]]
                /\ cur_src' = srt[1]
                /\ next_idx' = 2
                /\ merged' = <<>>
                /\ pc' = "loop"
                /\ UNCHANGED result
    /\ UNCHANGED <<input, steps, events, config, filtered>>

\* one iteration of: for next_event in sorted_events[1:]
MergeIter ==
    /\ pc = "loop"
    /\ next_idx <= Len(sorted_events)
    /\ LET nxt == events[sorted_events[next_idx]]
       IN  IF CanMerge(current, nxt, config.max_gap_seconds)
           THEN IF AbsorbRaises(current, nxt)
                THEN /\ pc' = "error"
                     /\ result' = "KeyError"
                     /\ UNCHANGED <<events, mergeVars>>
                ELSE /\ current' = Absorb(current, nxt)
                     \* the copy is shallow: current['data'] is the dict of
                     \* the event object it was copied from
                     /\ events' = WriteTitle(events, cur_src, current, nxt)
                     /\ next_idx' = next_idx + 1
                     /\ UNCHANGED <<pc, result, sorted_events, cur_src, merged>>
           ELSE /\ merged' = Append(merged, current)
                /\ current' = nxt
                /\ cur_src' = sorted_events[next_idx]
                /\ next_idx' = next_idx + 1
                /\ UNCHANGED <<pc, result, events, sorted_events>>
    /\ UNCHANGED <<input, steps, config, filtered>>

\* merged.append(current); return merged
MergeFinish ==
    /\ pc = "loop"
    /\ next_idx > Len(sorted_events)
    /\ merged' = EmitLast(merged, current)
    /\ result' = merged'
    /\ pc' = "done"
    /\ UNCHANGED <<input, steps, events, config, filtered, sorted_events, current,
                   cur_src, next_idx>>

NextMerge == MergeStart \/ MergeIter \/ MergeFinish

SpecMerge == InitMerge /\ [][NextMerge]_vars

\* the step model returns what the function returns
MergeStepsAgree ==
    pc = "done" =>
        /\ result = merge_consecutive_events(input, config.max_gap_seconds)
        /\ events = MergeCall(input, config.max_gap_seconds).heap

-----------------------------------------------------------------------------
(* Claims about merge_consecutive_events *)

\* the input in the order the loop walks it
Walked == [k \in 1..Len(sorted_events) |-> input[sorted_events[k]]]

RECURSIVE Ascending(_)
Ascending(S) ==
    IF S = {} THEN <<>>
    ELSE LET m == CHOOSE x \in S : \A y \in S : x <= y
         IN  <<m>> \o Ascending(S \ {m})

\* out is srt cut into consecutive runs, one output event per run: a run of
\* one event is that event, a longer run has the first event's timestamp and
\* lasts from the first event's start to the last event's end
IsRunsOf(srt, out) ==
    \E cuts \in SUBSET (2..Len(srt)) :
        /\ Cardinality(cuts) + 1 = Len(out)
        /\ LET first == <<1>> \o Ascending(cuts)
               last  == Ascending({c - 1 : c \in cuts}) \o <<Len(srt)>>
           IN  \A j \in 1..Len(out) :
                 LET a == first[j]
                     b == last[j]
                 IN  IF a = b
                     THEN out[j] = srt[a]
                     ELSE /\ out[j].timestamp = srt[a].timestamp
                          /\ out[j].duration =
                               (Start(srt[b]) + Duration(srt[b])) - Start(srt[a])

C3_MergeFixedPoint ==
    pc = "done" => merge_consecutive_events(result, config.max_gap_seconds) = result

\* a merge happened and left two events
C3_Witness ==
    /\ pc = "done"
    /\ Len(input) = 3
    /\ Len(result) = 2
    /\ \E j \in 1..2 : result[j] \notin Range(input)

\* C12 (as claimed): when the next event is merged into the accumulator, the
\* accumulator's data.title becomes the next event's title if the next title
\* is strictly longer (a missing title is the empty string) and is kept
\* otherwise.
C12_TitleReplacedIffLonger ==
    [][(/\ pc = "loop"
        /\ next_idx <= Len(sorted_events)
        /\ CanMerge(current, events[sorted_events[next_idx]],
                    config.max_gap_seconds)) =>
        LET nxt  == events[sorted_events[next_idx]]
            old  == Get(Get(current, "data", EmptyDict), "title", "")
            new  == Get(Get(nxt, "data", EmptyDict), "title", "")
            now  == Get(Get(current', "data", EmptyDict), "title", "")
        IN  /\ pc' = "loop"
            /\ now = IF Len(new) > Len(old) THEN new ELSE old]_vars

\* C13 (as claimed): after the call the caller's record that heads a merged
\* run carries the merged duration and the replaced title, and the records
\* that took part in no merge equal their output events: every output event
\* is then equal to the caller's record of its timestamp.
C13_MergeRewritesInPlace ==
    pc = "done" =>
        \A j \in 1..Len(result) :
            \E i \in 1..Len(events) : events[i] = result[j]

\* C13 (amended): the output is the walked input cut into runs; the record of
\* an event that is a run of its own is unchanged and equal to its output
\* event; the record that heads a longer run keeps its own duration (the
\* merged duration is written to a copy only) while its data mapping, with
\* the replaced title, is the one of the output event; the absorbed records
\* are unchanged.
C13_MergeRewritesTitleOnly ==
    (pc = "done" /\ input # <<>>) =>
        \E cuts \in SUBSET (2..Len(sorted_events)) :
            /\ Cardinality(cuts) + 1 = Len(result)
            /\ LET first == <<1>> \o Ascending(cuts)
                   last  == Ascending({c - 1 : c \in cuts}) \o <<Len(sorted_events)>>
               IN  \A j \in 1..Len(result) :
                     LET a == first[j]
                         b == last[j]
                         h == sorted_events[a]
                     IN  IF a = b
                         THEN /\ result[j] = input[h]
                              /\ events[h] = input[h]
                         ELSE /\ result[j].timestamp = input[h].timestamp
                              /\ result[j].duration =
                                   (ParseInstant(input[sorted_events[b]].timestamp)
                                    + Get(input[sorted_events[b]], "duration", 0))
                                   - ParseInstant(input[h].timestamp)
                              /\ DOMAIN events[h] = DOMAIN input[h]
                              /\ Get(events[h], "duration", 0) = Get(input[h], "duration", 0)
                              /\ IF "data" \in DOMAIN events[h]
                                 THEN /\ "data" \in DOMAIN result[j]
                                      /\ events[h].data = result[j].data
                                 ELSE "data" \notin DOMAIN result[j]
                              /\ \A k \in (a + 1)..b :
                                   events[sorted_events[k]] = input[sorted_events[k]]

\* two events were merged into one: the caller's first record has the longer
\* title of the second but still its own duration
C13_Witness ==
    /\ pc = "done"
    /\ Len(input) = 2
    /\ Len(result) = 1
    /\ events[1] # input[1]
    /\ events[1].data.title = "bb"
    /\ events[1].duration = input[1].duration
    /\ result[1].duration > events[1].duration
    /\ events[2] = input[2]

-----------------------------------------------------------------------------
(* deduplicate_simultaneous_events as one call *)

\* events at three timestamp strings, two of them the same instant spelled
\* differently; the duration is absent, 0, 1 or 2; data.app tells otherwise
\* equal events apart
DedupeEvents ==
    UNION {
      {[timestamp |-> ts, data |-> [app |-> a]]}
      \cup {[timestamp |-> ts, duration |-> d, data |-> [app |-> a]] : d \in {0, 1, 2}}
      : <<ts, a>> \in {Stamp(1, 10, 0, "+00:00"), Stamp(1, 10, 0, "Z"),
                       Stamp(1, 10, 1, "+00:00")} \X {"Code", "Mail"}}

InitDedupe ==
    /\ input \in SeqsUpTo(DedupeEvents, MaxLen)
    /\ events = input
    /\ config = DefaultConfig
    /\ pc = "start"
    /\ filtered = <<>>
    /\ sorted_events = <<>>
    /\ current = EmptyDict
    /\ cur_src = 0
    /\ next_idx = 0
    /\ merged = <<>>
    /\ result = None
    /\ steps = <<>>

DedupeCall ==
    /\ pc = "start"
    /\ result' = deduplicate_simultaneous_events(events)
    /\ pc' = "done"
    /\ UNCHANGED <<input, steps, events, config, filtered, mergeVars>>

NextDedupe == DedupeCall

SpecDedupe == InitDedupe /\ [][NextDedupe]_vars

-----------------------------------------------------------------------------
(* Claims about deduplicate_simultaneous_events *)

\* the position of the first input event carrying timestamp string ts
FirstAt(ts) ==
    CHOOSE i \in 1..Len(input) :
        /\ input[i].timestamp = ts
        /\ \A k \in 1..(i - 1) : input[k].timestamp # ts

\* C4: the result holds exactly one event for each distinct timestamp string
\* of the input, in the order in which the timestamps first occur; the event
\* kept is an input event of that timestamp of maximum duration (absent = 0),
\* the first such in input order.
C4_DedupeOnePerTimestamp ==
    pc = "done" =>
        /\ {result[j].timestamp : j \in 1..Len(result)}
             = {input[i].timestamp : i \in 1..Len(input)}
        /\ \A j, k \in 1..Len(result) :
             j < k => FirstAt(result[j].timestamp) < FirstAt(result[k].timestamp)
        /\ \A j \in 1..Len(result) :
             \E i \in 1..Len(input) :
                /\ result[j] = input[i]
                /\ \A k \in 1..Len(input) :
                     input[k].timestamp = input[i].timestamp =>
                        \/ Get(input[k], "duration", 0) < Get(input[i], "duration", 0)
                        \/ /\ Get(input[k], "duration", 0) = Get(input[i], "duration", 0)
                           /\ (k >= i \/ input[k] = input[i])

\* two different events share a timestamp and the maximum duration, a third
\* event has its own timestamp
C4_Witness ==
    /\ pc = "done"
    /\ Len(input) = 3
    /\ Len(result) = 2
    /\ \E i, k \in 1..3 :
         /\ i < k
         /\ input[i].timestamp = input[k].timestamp
         /\ input[i] # input[k]
         /\ Duration(input[i]) = Duration(input[k])
         /\ input[i] \in Range(result)

\* C5: deduplicating the result of a deduplication returns it unchanged,
\* order included.
C5_DedupeIdempotent ==
    pc = "done" => deduplicate_simultaneous_events(result) = result

\* a deduplication that dropped an event and kept two
C5_Witness ==
    /\ pc = "done"
    /\ Len(result) = 2
    /\ Len(input) = 3

-----------------------------------------------------------------------------
(* filter_events, one pass per step; `filtered` holds references to the      *)
(* caller's event objects until the merge pass copies them                   *)

ts0 == Stamp(1, 10, 0, "+00:00")
ts2 == Stamp(1, 10, 2, "+00:00")

\* events at two timestamps: durations absent, negative, zero, below and at
\* the default minimum; an app of the default exclusion list
FilterEvents ==
    {[timestamp |-> ts0, data |-> [app |-> "Code"]]}
    \cup {[timestamp |-> ts0, duration |-> d, data |-> [app |-> "Code"]]
            : d \in {-1, 0, 1, 2}}
    \cup {[timestamp |-> ts0, duration |-> 3, data |-> [app |-> "loginwindow"]]}
    \cup {[timestamp |-> ts2, duration |-> d, data |-> [app |-> "Code"]]
            : d \in {0, 2}}
    \cup {[timestamp |-> ts2, duration |-> 2, data |-> [app |-> "Mail"]]}

FilterConfigs ==
    [min_duration_seconds     : {0, DefaultMinDuration},
     exclude_apps             : {None, <<>>, <<"Code">>},
     remove_zero_duration     : BOOLEAN,
     deduplicate_simultaneous : BOOLEAN,
     merge_consecutive        : BOOLEAN,
     max_gap_seconds          : {DefaultMaxGap}]

Init ==
    /\ input \in SeqsUpTo(FilterEvents, MaxLen)
    /\ events = input
    /\ config \in FilterConfigs
    /\ pc = "start"
    /\ filtered = <<>>
    /\ sorted_events = <<>>
    /\ current = EmptyDict
    /\ cur_src = 0
    /\ next_idx = 0
    /\ merged = <<>>
    /\ result = None
    /\ steps = <<>>

\* filtered = events.copy(): a new list of the same objects
FilterStart ==
    /\ pc = "start"
    /\ filtered' = [i \in 1..Len(events) |-> i]
    /\ pc' = FilterPasses[1]
    /\ UNCHANGED <<input, steps, events, config, mergeVars, result>>

\* if remove_zero_duration: keep e.get('duration', 0) > 0
PassZero ==
    /\ pc = "zero"
    /\ filtered' = IF config.remove_zero_duration
                   THEN SelectSeq(filtered, LAMBDA i : KeepsNonZero(events[i]))
                   ELSE filtered
    /\ pc' = After("zero")
    /\ UNCHANGED <<input, steps, events, config, mergeVars, result>>

\* if min_duration_seconds > 0: keep e.get('duration', 0) >= min_duration_seconds
PassMin ==
    /\ pc = "min"
    /\ filtered' = IF config.min_duration_seconds > 0
                   THEN SelectSeq(filtered, LAMBDA i :
                            KeepsMinDuration(events[i], config.min_duration_seconds))
                   ELSE filtered
    /\ pc' = After("min")
    /\ UNCHANGED <<input, steps, events, config, mergeVars, result>>

\* if exclude_apps: keep the events whose app is not in the list
PassExclude ==
    /\ pc = "exclude"
    /\ LET list == ExcludeList(config.exclude_apps)
       IN  filtered' = IF list # <<>>
                       THEN SelectSeq(filtered, LAMBDA i : KeepsApp(events[i], list))
                       ELSE filtered
    /\ pc' = After("exclude")
    /\ UNCHANGED <<input, steps, events, config, mergeVars, result>>

\* if deduplicate_simultaneous: filtered = deduplicate_simultaneous_events(filtered)
\* (every event of FilterEvents carries a timestamp: the call does not raise)
PassDedupe ==
    /\ pc = "dedupe"
    /\ filtered' = IF config.deduplicate_simultaneous
                   THEN LET keep == DedupePositions(Deref(events, filtered))
                        IN  [k \in 1..Len(keep) |-> filtered[keep[k]]]
                   ELSE filtered
    /\ pc' = After("dedupe")
    /\ UNCHANGED <<input, steps, events, config, mergeVars, result>>

\* if merge_consecutive: filtered = merge_consecutive_events(filtered,
\* max_gap_seconds); return filtered
PassMerge ==
    /\ pc = "merge"
    /\ IF config.merge_consecutive
       THEN LET call == MergeCall(Deref(events, filtered), config.max_gap_seconds)
            IN  /\ result' = call.out
                /\ events' = [i \in 1..Len(events) |->
                                IF \E k \in 1..Len(filtered) : filtered[k] = i
                                THEN call.heap[CHOOSE k \in 1..Len(filtered) :
                                                  filtered[k] = i]
                                ELSE events[i]]
                /\ pc' = IF (call.out = "KeyError" \/ call.out = "ValueError") THEN "error" ELSE "done"
       ELSE /\ result' = Deref(events, filtered)
            /\ events' = events
            /\ pc' = "done"
    /\ UNCHANGED <<input, steps, config, filtered, mergeVars>>

Next ==
    \/ FilterStart
    \/ PassZero
    \/ PassMin
    \/ PassExclude
    \/ PassDedupe
    \/ PassMerge

Spec == Init /\ [][Next]_vars

\* the function as a whole
filter_events(evs, cfg) ==
    LET list == ExcludeList(cfg.exclude_apps)
        f1 == IF cfg.remove_zero_duration
              THEN SelectSeq(evs, KeepsNonZero) ELSE evs
        f2 == IF cfg.min_duration_seconds > 0
              THEN SelectSeq(f1, LAMBDA e : KeepsMinDuration(e, cfg.min_duration_seconds))
              ELSE f1
        f3 == IF list # <<>>
              THEN SelectSeq(f2, LAMBDA e : KeepsApp(e, list)) ELSE f2
        f4 == IF cfg.deduplicate_simultaneous
              THEN deduplicate_simultaneous_events(f3) ELSE f3
    IN  IF cfg.deduplicate_simultaneous /\ DedupeRaises(f3) THEN "KeyError"
        ELSE IF cfg.merge_consecutive
        THEN merge_consecutive_events(f4, cfg.max_gap_seconds) ELSE f4

\* the step model returns what the function returns
FilterStepsAgree ==
    pc \in {"done", "error"} => result = filter_events(input, config)

-----------------------------------------------------------------------------
(* Claims about filter_events *)

InputPositions == [i \in 1..Len(input) |-> i]

PassesZero(i) ==
    config.remove_zero_duration => Get(input[i], "duration", 0) > 0

PassesMin(i) ==
    config.min_duration_seconds > 0 =>
        Get(input[i], "duration", 0) >= config.min_duration_seconds

PassesExclude(i) ==
    LET app == Get(Get(input[i], "data", EmptyDict), "app", None)
    IN  IF config.exclude_apps = None
        THEN app \notin {"UserNotificationCenter", "loginwindow", "CoreServicesUIAgent"}
        ELSE app \notin Range(config.exclude_apps)

\* the input events no threshold or exclusion pass drops
Survives(i) == PassesZero(i) /\ PassesMin(i) /\ PassesExclude(i)

\* C6: the passes run in the order zero-duration, minimum duration, app
\* exclusion, deduplication, merging, each on the output of the one before:
\* deduplication reads exactly the events that survive the thresholds and the
\* exclusion, so a dropped event is neither kept for its timestamp nor
\* suppresses a survivor, and merging reads exactly the deduplicated events.
C6_FixedPassOrder ==
    /\ pc = "dedupe" => filtered = SelectSeq(InputPositions, Survives)
    /\ pc \in {"merge", "done"} =>
        /\ \A k \in Range(filtered) : Survives(k)
        /\ IF config.deduplicate_simultaneous
           THEN /\ \A i \in 1..Len(input) :
                     Survives(i) =>
                        \E k \in Range(filtered) :
                           /\ input[k].timestamp = input[i].timestamp
                           /\ Duration(input[k]) >= Duration(input[i])
                /\ \A j, k \in 1..Len(filtered) :
                     j # k => input[filtered[j]].timestamp # input[filtered[k]].timestamp
           ELSE filtered = SelectSeq(InputPositions, Survives)
    /\ pc = "done" =>
        result = IF config.merge_consecutive
                 THEN merge_consecutive_events(Deref(input, filtered),
                                               config.max_gap_seconds)
                 ELSE Deref(input, filtered)

\* an excluded app's longer event shares the timestamp of a surviving event,
\* and a too-short event precedes a mergeable one: the result is the two
\* survivors merged
C6_Witness ==
    /\ pc = "done"
    /\ config = DefaultConfig
    /\ Len(input) = 3
    /\ \E i, k, m \in 1..3 :
         /\ AppOf(input[i]) = "loginwindow"
         /\ input[k].timestamp = input[i].timestamp
         /\ Duration(input[k]) < Duration(input[i])
         /\ Survives(k)
         /\ Survives(m)
         /\ m # k
    /\ Len(result) = 1
    /\ result[1].duration = 4

\* C9: with remove_zero_duration the first pass drops exactly the events of
\* duration <= 0 (absent = 0); with min_duration_seconds > 0 the second pass
\* drops exactly the events of duration < min_duration_seconds, keeping one
\* whose duration equals the minimum; a disabled pass, and the second pass
\* with min_duration_seconds <= 0, drops nothing.
C9_ThresholdPasses ==
    /\ pc = "min" => filtered = SelectSeq(InputPositions, PassesZero)
    /\ pc = "exclude" =>
         filtered = SelectSeq(InputPositions, LAMBDA i : PassesZero(i) /\ PassesMin(i))

\* an absent, a too short and a minimum-length duration met both passes
C9_Witness ==
    /\ pc = "exclude"
    /\ config.remove_zero_duration
    /\ config.min_duration_seconds = 2
    /\ Len(input) = 3
    /\ "duration" \notin DOMAIN input[1]
    /\ Duration(input[2]) = 1
    /\ Duration(input[3]) = 2
    /\ filtered = <<3>>

\* C10 (as claimed): with remove_zero_duration disabled and every other
\* option at its default, a zero-duration event of an app that is not
\* excluded is kept in the cleaned output.
C10_KeepZeroDurationKeeps ==
    (/\ pc = "done"
     /\ config = [DefaultConfig EXCEPT !.remove_zero_duration = FALSE]
     /\ Len(input) = 1
     /\ "duration" \in DOMAIN input[1]
     /\ input[1].duration = 0
     /\ AppOf(input[1]) = "Code")
    => result = input

\* every pass of the pipeline is switched on
AllPassesEnabled ==
    /\ config.remove_zero_duration
    /\ config.min_duration_seconds > 0
    /\ (config.exclude_apps = None \/ Len(config.exclude_apps) > 0)
    /\ config.deduplicate_simultaneous
    /\ config.merge_consecutive

\* C11: with all passes enabled the output has no more events than the input,
\* and every output event, merged ones included, has duration > 0, duration >=
\* min_duration_seconds and a data.app outside exclude_apps (the three system
\* apps when exclude_apps is not given).
C11_OutputWithinThresholds ==
    (pc = "done" /\ AllPassesEnabled) =>
        /\ Len(result) <= Len(input)
        /\ \A j \in 1..Len(result) :
             LET d   == Get(result[j], "duration", 0)
                 app == Get(Get(result[j], "data", EmptyDict), "app", None)
             IN  /\ d > 0
                 /\ d >= config.min_duration_seconds
                 /\ IF config.exclude_apps = None
                    THEN app \notin {"UserNotificationCenter", "loginwindow",
                                     "CoreServicesUIAgent"}
                    ELSE app \notin Range(config.exclude_apps)

\* a zero-duration event was dropped and the two remaining events were merged
\* into one of a new duration
C11_Witness ==
    /\ pc = "done"
    /\ AllPassesEnabled
    /\ Len(input) = 3
    /\ \E i \in 1..3 : "duration" \in DOMAIN input[i] /\ input[i].duration = 0
    /\ Len(result) = 1
    /\ \A i \in 1..3 : result[1].duration > Duration(input[i])

-----------------------------------------------------------------------------
(* analyze_events as one call *)

tsA == Stamp(1, 10, 0, "+00:00")
tsB == Stamp(2, 11, 0, "Z")

\* window events of two apps on two days, events without app, data or
\* duration, with a device or a hostname, and web events with a url, with
\* titles of one and two characters or without title
AnalyzeEvents ==
    {[timestamp |-> ts, duration |-> d, data |-> [app |-> a, title |-> "a"]]
        : <<ts, d, a>> \in {tsA, tsB} \X {1, 3, 8} \X {"Code", "Mail"}}
    \cup {[timestamp |-> tsA, duration |-> 2, data |-> [title |-> "a"]],
          [timestamp |-> tsA, device |-> "laptop"],
          [timestamp |-> tsB, duration |-> 1,
           data |-> [app |-> "Code", hostname |-> "desk"]],
          [timestamp |-> tsA, duration |-> 1, data |-> [app |-> "Web", url |-> ""]]}
    \cup {[timestamp |-> tsA, duration |-> d,
           data |-> [app |-> "Web", url |-> "u1", title |-> t]]
            : <<d, t>> \in {1, 2} \X {"a", "bb"}}
    \cup {[timestamp |-> tsA, duration |-> 1,
           data |-> [app |-> "Web", url |-> "u1", title |-> "cc"]],
          [timestamp |-> tsA, duration |-> 1,
           data |-> [app |-> "Web", url |-> "u1"]]}

InitAnalyze ==
    /\ input \in SeqsUpTo(AnalyzeEvents, MaxLen)
    /\ events = input
    /\ config = DefaultConfig
    /\ pc = "start"
    /\ filtered = <<>>
    /\ sorted_events = <<>>
    /\ current = EmptyDict
    /\ cur_src = 0
    /\ next_idx = 0
    /\ merged = <<>>
    /\ result = None
    /\ steps = <<>>

AnalyzeCall ==
    /\ pc = "start"
    /\ result' = analyze_events(events)
    /\ pc' = "done"
    /\ UNCHANGED <<input, steps, events, config, filtered, mergeVars>>

NextAnalyze == AnalyzeCall

SpecAnalyze == InitAnalyze /\ [][NextAnalyze]_vars

-----------------------------------------------------------------------------
(* Claims about analyze_events *)

\* the durations of the input, absent = 0
InputDurations == [i \in 1..Len(input) |-> Get(input[i], "duration", 0)]

\* the durations add up without rounding: their exact sum has no more bits
\* than the significand holds
SumsAreExact == SumSeq(InputDurations) <= Pow2(MantissaBits)

DurationsOf(grouping) == [j \in 1..Len(grouping) |-> grouping[j].duration]

CountsOf(grouping) == [j \in 1..Len(grouping) |-> grouping[j].events]

\* C7 (as claimed): the durations of the apps grouping sum to total_duration
\* and its event counts sum to total_events, for every event sequence.
C7_AppsPartition ==
    pc = "done" =>
        /\ FloatSum(DurationsOf(result.apps)) = result.total_duration
        /\ SumSeq(CountsOf(result.apps)) = result.total_events

\* C7 (amended): the event counts of the apps grouping sum to total_events =
\* the number of events; when the durations add up without floating-point
\* rounding, the durations of the apps grouping sum to total_duration = the
\* sum of the events' durations (absent = 0).
C7_AppsPartitionExact ==
    pc = "done" =>
        /\ SumSeq(CountsOf(result.apps)) = result.total_events
        /\ result.total_events = Len(input)
        /\ SumsAreExact =>
             /\ FloatSum(DurationsOf(result.apps)) = result.total_duration
             /\ result.total_duration = SumSeq(InputDurations)

\* three events of two apps and an event without app, adding up exactly
C7_Witness ==
    /\ pc = "done"
    /\ Len(input) = 3
    /\ SumsAreExact
    /\ Len(result.apps) = 2
    /\ \E j \in 1..2 : result.apps[j].key = "Unknown"
    /\ result.total_duration = 6

\* the events that have a url
WithUrl ==
    SelectSeq(input, LAMBDA e :
        LET url == Get(Get(e, "data", EmptyDict), "url", None)
        IN  url # None /\ url # "")

\* the bucket durations of a grouping sum to the total duration of the input
SumsToTotal(grouping) == SumSeq(DurationsOf(grouping)) = SumSeq(InputDurations)

\* every input event is counted in exactly one bucket of the grouping
CountsAll(grouping) == SumSeq(CountsOf(grouping)) = Len(input)

\* C8 (as claimed): for each of apps, devices, daily, hourly and urls the
\* bucket durations sum to the total duration of the input.
C8_EveryGroupingPartitions ==
    (pc = "done" /\ SumsAreExact) =>
        /\ SumsToTotal(result.apps)
        /\ SumsToTotal(result.devices)
        /\ SumsToTotal(result.daily)
        /\ SumsToTotal(result.hourly)
        /\ SumsToTotal(result.urls)

\* C8 (amended): when the durations add up without floating-point rounding,
\* the bucket durations of apps, devices, daily and hourly each sum to the
\* total duration of the input, and those of urls sum to the total duration
\* of the events that have a non-empty url.
C8_GroupingsPartitionUrlsFilter ==
    (pc = "done" /\ SumsAreExact) =>
        /\ SumsToTotal(result.apps) /\ CountsAll(result.apps)
        /\ SumsToTotal(result.devices) /\ CountsAll(result.devices)
        /\ SumsToTotal(result.daily) /\ CountsAll(result.daily)
        /\ SumsToTotal(result.hourly) /\ CountsAll(result.hourly)
        /\ SumSeq(DurationsOf(result.urls))
             = SumSeq([i \in 1..Len(WithUrl) |-> Get(WithUrl[i], "duration", 0)])
        /\ SumSeq(CountsOf(result.urls)) = Len(WithUrl)

\* events on two days and hours, one of them with a url
C8_Witness ==
    /\ pc = "done"
    /\ Len(input) = 3
    /\ SumsAreExact
    /\ Len(result.daily) = 2
    /\ Len(result.hourly) = 2
    /\ Len(result.devices) = 2
    /\ Len(result.urls) = 1
    /\ Len(WithUrl) = 1

-----------------------------------------------------------------------------
(* ActivityWatchCleaner.filter_events of aw_deduper.py: the same passes,    *)
(* each followed by its line of the audit log `steps`                       *)

\* self.config as __init__ leaves it
CleanerDefaults ==
    [remove_zero_duration     |-> TRUE,
     deduplicate_simultaneous |-> TRUE,
     merge_consecutive        |-> TRUE,
     max_gap_seconds          |-> DefaultMaxGap,
     min_duration_seconds     |-> DefaultMinDuration,
     exclude_apps             |-> <<"UserNotificationCenter", "loginwindow",
                                    "CoreServicesUIAgent">>]

\* the f-strings of the log, with the values they interpolate
ZeroLine(removed) ==
    [text |-> "Removed {removed} zero-duration events", removed |-> removed]

MinLine(removed, min_duration) ==
    [text |-> "Removed {removed} events shorter than {min_duration}s",
     removed |-> removed, min_duration |-> min_duration]

ExcludeLine(removed) ==
    [text |-> "Removed {removed} events from excluded apps", removed |-> removed]

DedupeLine(removed) ==
    [text |-> "Deduplicated {removed} simultaneous events", removed |-> removed]

MergeLine(removed) ==
    [text |-> "Merged {removed} consecutive same-app events", removed |-> removed]

\* a ratio times 100 formatted with :.1f, as a number of tenths (nearest,
\* ties to even)
FormatTenths(num, den) ==
    LET q == (num * 1000) \div den
        r == (num * 1000) % den
    IN  IF 2 * r < den THEN q
        ELSE IF 2 * r > den THEN q + 1
        ELSE IF q % 2 = 0 THEN q ELSE q + 1

\* (total_removed / original_count * 100) if original_count > 0 else 0
ReductionPct(total_removed, original_count) ==
    IF original_count > 0 THEN FormatTenths(total_removed, original_count) ELSE 0

TotalLine(total_removed, original_count) ==
    [text |-> "Total reduction: {total_removed} events ({reduction_pct:.1f}%)",
     removed |-> total_removed,
     reduction_pct |-> ReductionPct(total_removed, original_count)]

\* mutant: the line is appended whether or not the pass removed anything
LogStep_Always(log, removed, line) == Append(log, line)

\* if removed > 0: steps.append(...)
LogStep(log, removed, line) == IF removed > 0 THEN Append(log, line) ELSE log

CleanerConfigs ==
    [min_duration_seconds     : {0, DefaultMinDuration},
     exclude_apps             : {CleanerDefaults.exclude_apps, <<>>},
     remove_zero_duration     : BOOLEAN,
     deduplicate_simultaneous : BOOLEAN,
     merge_consecutive        : BOOLEAN,
     max_gap_seconds          : {DefaultMaxGap}]

InitCleaner ==
    /\ input \in SeqsUpTo(FilterEvents, MaxLen)
    /\ events = input
    /\ config \in CleanerConfigs
    /\ pc = "start"
    /\ filtered = <<>>
    /\ sorted_events = <<>>
    /\ current = EmptyDict
    /\ cur_src = 0
    /\ next_idx = 0
    /\ merged = <<>>
    /\ result = None
    /\ steps = <<>>

\* filtered = events.copy(); steps = []
CleanerStart ==
    /\ pc = "start"
    /\ filtered' = [i \in 1..Len(events) |-> i]
    /\ steps' = <<>>
    /\ pc' = "zero"
    /\ UNCHANGED <<input, events, config, mergeVars, result>>

\* Step 1: Remove zero-duration events
CleanerZero ==
    /\ pc = "zero"
    /\ IF config.remove_zero_duration
       THEN LET kept == SelectSeq(filtered, LAMBDA i : KeepsNonZero(events[i]))
            IN  /\ filtered' = kept
                /\ steps' = LogStep(steps, Len(filtered) - Len(kept),
                                    ZeroLine(Len(filtered) - Len(kept)))
       ELSE UNCHANGED <<filtered, steps>>
    /\ pc' = "min"
    /\ UNCHANGED <<input, events, config, mergeVars, result>>

\* Step 2: Remove very short events
CleanerMin ==
    /\ pc = "min"
    /\ IF config.min_duration_seconds > 0
       THEN LET min_duration == config.min_duration_seconds
                kept == SelectSeq(filtered, LAMBDA i :
                            KeepsMinDuration(events[i], min_duration))
            IN  /\ filtered' = kept
                /\ steps' = LogStep(steps, Len(filtered) - Len(kept),
                                    MinLine(Len(filtered) - Len(kept), min_duration))
       ELSE UNCHANGED <<filtered, steps>>
    /\ pc' = "exclude"
    /\ UNCHANGED <<input, events, config, mergeVars, result>>

\* Step 3: Remove excluded apps
CleanerExclude ==
    /\ pc = "exclude"
    /\ IF config.exclude_apps # <<>>
       THEN LET kept == SelectSeq(filtered, LAMBDA i :
                            KeepsApp(events[i], config.exclude_apps))
            IN  /\ filtered' = kept
                /\ steps' = LogStep(steps, Len(filtered) - Len(kept),
                                    ExcludeLine(Len(filtered) - Len(kept)))
       ELSE UNCHANGED <<filtered, steps>>
    /\ pc' = "dedupe"
    /\ UNCHANGED <<input, events, config, mergeVars, result>>

\* Step 4: Deduplicate simultaneous events
CleanerDedupe ==
    /\ pc = "dedupe"
    /\ IF config.deduplicate_simultaneous
       THEN LET keep == DedupePositions(Deref(events, filtered))
                kept == [k \in 1..Len(keep) |-> filtered[keep[k]]]
            IN  /\ filtered' = kept
                /\ steps' = LogStep(steps, Len(filtered) - Len(kept),
                                    DedupeLine(Len(filtered) - Len(kept)))
       ELSE UNCHANGED <<filtered, steps>>
    /\ pc' = "merge"
    /\ UNCHANGED <<input, events, config, mergeVars, result>>

\* Step 5: Merge consecutive events; from here on `filtered` is the list of
\* merged copies, held in result
CleanerMerge ==
    /\ pc = "merge"
    /\ IF config.merge_consecutive
       THEN LET call == MergeCall(Deref(events, filtered), config.max_gap_seconds)
            IN  /\ result' = call.out
                /\ events' = [i \in 1..Len(events) |->
                                IF \E k \in 1..Len(filtered) : filtered[k] = i
                                THEN call.heap[CHOOSE k \in 1..Len(filtered) :
                                                  filtered[k] = i]
                                ELSE events[i]]
                /\ IF (call.out = "KeyError" \/ call.out = "ValueError")
                   THEN pc' = "error" /\ UNCHANGED steps
                   ELSE /\ pc' = "summary"
                        /\ steps' = LogStep(steps, Len(filtered) - Len(call.out),
                                            MergeLine(Len(filtered) - Len(call.out)))
       ELSE /\ result' = Deref(events, filtered)
            /\ pc' = "summary"
            /\ UNCHANGED <<events, steps>>
    /\ UNCHANGED <<input, config, filtered, mergeVars>>

\* Summary: the total line; return filtered, steps
CleanerSummary ==
    /\ pc = "summary"
    /\ steps' = Append(steps, TotalLine(Len(events) - Len(result), Len(events)))
    /\ result' = <<result, steps'>>
    /\ pc' = "done"
    /\ UNCHANGED <<input, events, config, filtered, mergeVars>>

NextCleaner ==
    \/ CleanerStart
    \/ CleanerZero
    \/ CleanerMin
    \/ CleanerExclude
    \/ CleanerDedupe
    \/ CleanerMerge
    \/ CleanerSummary

SpecCleaner == InitCleaner /\ [][NextCleaner]_vars

-----------------------------------------------------------------------------
(* Claims about ActivityWatchCleaner.filter_events *)

\* the line a pass writes
PassText ==
    [zero    |-> "Removed {removed} zero-duration events",
     min     |-> "Removed {removed} events shorter than {min_duration}s",
     exclude |-> "Removed {removed} events from excluded apps",
     dedupe  |-> "Deduplicated {removed} simultaneous events",
     merge   |-> "Merged {removed} consecutive same-app events"]

PassRank == [zero |-> 1, min |-> 2, exclude |-> 3, dedupe |-> 4, merge |-> 5]

\* the cleaned events computed without any log
CleanedWithoutLog ==
    LET keeps(e) ==
          /\ config.remove_zero_duration => Get(e, "duration", 0) > 0
          /\ config.min_duration_seconds > 0 =>
                Get(e, "duration", 0) >= config.min_duration_seconds
          /\ Get(Get(e, "data", EmptyDict), "app", None) \notin Range(config.exclude_apps)
        f3 == SelectSeq(input, keeps)
        f4 == IF config.deduplicate_simultaneous
              THEN deduplicate_simultaneous_events(f3) ELSE f3
    IN  IF config.merge_consecutive
        THEN merge_consecutive_events(f4, config.max_gap_seconds) ELSE f4

\* C14: each pass that reduces the event count appends one line stating its
\* reduction and a pass that leaves the count unchanged appends none, so the
\* lines are in pass order; the log ends with a 'Total reduction' line whose
\* count is original count - final count, the sum of the per-pass counts, and
\* whose percentage is 0 for an empty input; the returned events are those
\* the passes compute without the log.
C14_AuditLog ==
    /\ [][(pc \in DOMAIN PassText /\ pc' = "error") \/
          (pc \in DOMAIN PassText =>
            LET before  == Len(filtered)
                after   == IF pc = "merge" THEN Len(result') ELSE Len(filtered')
            IN  IF before - after > 0
                THEN /\ Len(steps') = Len(steps) + 1
                     /\ SubSeq(steps', 1, Len(steps)) = steps
                     /\ steps'[Len(steps')].text = PassText[pc]
                     /\ steps'[Len(steps')].removed = before - after
                ELSE /\ after = before
                     /\ steps' = steps)]_vars
    /\ [](pc = "done" =>
            LET cleaned == result[1]
                log     == result[2]
                last    == log[Len(log)]
                passes  == SubSeq(log, 1, Len(log) - 1)
            IN  /\ Len(log) >= 1
                /\ last.text = "Total reduction: {total_removed} events ({reduction_pct:.1f}%)"
                /\ last.removed = Len(input) - Len(cleaned)
                /\ last.removed = SumSeq([k \in 1..Len(passes) |-> passes[k].removed])
                /\ Len(input) = 0 => last.reduction_pct = 0
                /\ \A k \in 1..Len(passes) : passes[k].removed > 0
                /\ \A k \in 1..Len(passes) :
                     \E q \in DOMAIN PassText :
                        /\ passes[k].text = PassText[q]
                        /\ \A m \in 1..(k - 1) :
                             \E r \in DOMAIN PassText :
                                /\ passes[m].text = PassText[r]
                                /\ PassRank[r] < PassRank[q]
                /\ cleaned = CleanedWithoutLog)

\* the zero-duration pass and the merge each removed one of three events, the
\* passes between them none: three lines, the last one with 66.7%
C14_Witness ==
    /\ pc = "done"
    /\ Len(input) = 3
    /\ Len(result[2]) = 3
    /\ result[2][1] = ZeroLine(1)
    /\ result[2][2] = MergeLine(1)
    /\ result[2][3].removed = 2
    /\ result[2][3].reduction_pct = 667
    /\ Len(result[1]) = 1

-----------------------------------------------------------------------------
(* extract_events_from_data of aw_analyze.py.  A decoded JSON document is   *)
(* a record tagged with its Python type: a list with its items, or a dict   *)
(* with its keys; the value of `buckets` is the sequence of the (name,      *)
(* bucket dict) items of that dict, in key order                            *)

MaxEnvelopes == 2

JsonList(items) == [pytype |-> "list", items |-> items]

JsonDict(d) == SetKey(d, "pytype", "dict")

\* mutant: the buckets key is tested before the events key
ShapeOf_BucketsFirst(data) ==
    IF data.pytype = "list" THEN "list"
    ELSE IF "buckets" \in DOMAIN data THEN "buckets"
    ELSE IF "events" \in DOMAIN data THEN "events"
    ELSE IF "data" \in DOMAIN data THEN "data"
    ELSE "other"

\* the branch of the if / elif chain that runs
ShapeOf(data) ==
    IF data.pytype = "list" THEN "list"
    ELSE IF "events" \in DOMAIN data THEN "events"
    ELSE IF "buckets" \in DOMAIN data THEN "buckets"
    ELSE IF "data" \in DOMAIN data THEN "data"
    ELSE "other"

\* mutant: the bucket name is written into the event itself
TagEvent_InPlace(event, bucket_name) ==
    [copy     |-> SetKey(event, "bucket", bucket_name),
     original |-> SetKey(event, "bucket", bucket_name)]

\* event_copy = event.copy(); event_copy['bucket'] = bucket_name: the event
\* appended and the caller's event afterwards
TagEvent(event, bucket_name) ==
    [copy     |-> SetKey(event, "bucket", bucket_name),
     original |-> event]

\* for bucket_name, bucket_data in data['buckets'].items(), from item i
RECURSIVE FlattenFrom(_, _, _)
FlattenFrom(buckets, i, out) ==
    IF i > Len(buckets) THEN out
    ELSE LET bucket_name == buckets[i].name
             bucket_data == buckets[i].value
         IN  FlattenFrom(buckets, i + 1,
                IF "events" \in DOMAIN bucket_data
                THEN out \o [k \in 1..Len(bucket_data.events) |->
                                TagEvent(bucket_data.events[k], bucket_name).copy]
                ELSE out)

\* the caller's buckets after the loop
BucketsAfter(buckets) ==
    [i \in 1..Len(buckets) |->
        IF "events" \in DOMAIN buckets[i].value
        THEN [name  |-> buckets[i].name,
              value |-> SetKey(buckets[i].value, "events",
                          [k \in 1..Len(buckets[i].value.events) |->
                              TagEvent(buckets[i].value.events[k],
                                       buckets[i].name).original])]
        ELSE buckets[i]]

\* one call: the list returned and the caller's document afterwards
RECURSIVE ExtractCall(_)
ExtractCall(data) ==
    LET shape == ShapeOf(data)
    IN  IF shape = "list" THEN [out |-> data.items, heap |-> data]
        ELSE IF shape = "events" THEN [out |-> data.events, heap |-> data]
        ELSE IF shape = "buckets"
        THEN [out  |-> FlattenFrom(data.buckets, 1, <<>>),
              heap |-> SetKey(data, "buckets", BucketsAfter(data.buckets))]
        ELSE IF shape = "data"
        THEN LET inner == ExtractCall(data.data)
             IN  [out  |-> inner.out,
                  heap |-> SetKey(data, "data", inner.heap)]
        ELSE [out |-> <<>>, heap |-> data]

extract_events_from_data(data) == ExtractCall(data).out

\* an event as exported, and one that already carries a bucket field
ExtractEvents ==
    {[timestamp |-> ts0, duration |-> 1],
     [timestamp |-> ts2, duration |-> 2, bucket |-> "old"]}

BucketNames == {"bucket1", "bucket2"}

\* a bucket dict with or without an events key
BucketDicts(lists) ==
    {[type |-> "currentwindow"]}
    \cup {[type |-> "currentwindow", events |-> l] : l \in lists}

\* the items of a buckets dict: distinct names in any key order
BucketItems(lists) ==
    {<<>>}
    \cup {<<[name |-> n, value |-> b]>> : n \in BucketNames, b \in BucketDicts(lists)}
    \cup {<<[name |-> q[1], value |-> q[3]], [name |-> q[2], value |-> q[4]]>> :
            q \in {q \in BucketNames \X BucketNames
                           \X BucketDicts(lists) \X BucketDicts(lists) :
                     q[1] # q[2]}}

\* {**a, **b}
Update(a, b) ==
    [k \in DOMAIN a \cup DOMAIN b |-> IF k \in DOMAIN b THEN b[k] ELSE a[k]]

\* documents without an envelope: a list, a full buckets export, and a dict
\* with any of the keys events, buckets and an unrecognised key
PlainDocs ==
    LET lists == SeqsUpTo(ExtractEvents, MaxLen)
        short == SeqsUpTo(ExtractEvents, 1)
        empty == JsonDict(EmptyDict)
    IN  {JsonList(l) : l \in lists}
        \cup {JsonDict([buckets |-> b]) : b \in BucketItems(lists)}
        \cup {Update(Update(e, b), u) :
                <<e, b, u>> \in
                    ({empty} \cup {JsonDict([events |-> l]) : l \in short})
                    \X ({empty} \cup {JsonDict([buckets |-> i]) : i \in BucketItems(short)})
                    \X {empty, JsonDict([unknown |-> "format"])}}

\* a document inside n envelopes {data: ...}; an envelope may itself carry an
\* events or a buckets key
RECURSIVE Enveloped(_)
Enveloped(n) ==
    IF n = 0 THEN PlainDocs
    ELSE LET inner == Enveloped(n - 1)
             small == {d \in inner : "events" \in DOMAIN d}
         IN  {JsonDict([data |-> d]) : d \in inner}
             \cup {JsonDict([data |-> d, events |-> <<>>]) : d \in small}
             \cup {JsonDict([data |-> d, buckets |-> <<>>]) : d \in small}

ExtractDocs == UNION {Enveloped(n) : n \in 0..MaxEnvelopes}

InitExtract ==
    /\ input \in ExtractDocs
    /\ events = input
    /\ config = DefaultConfig
    /\ pc = "start"
    /\ filtered = <<>>
    /\ sorted_events = <<>>
    /\ current = EmptyDict
    /\ cur_src = 0
    /\ next_idx = 0
    /\ merged = <<>>
    /\ result = None
    /\ steps = <<>>

ExtractStep ==
    /\ pc = "start"
    /\ result' = ExtractCall(events).out
    /\ events' = ExtractCall(events).heap
    /\ pc' = "done"
    /\ UNCHANGED <<input, steps, config, filtered, mergeVars>>

NextExtract == ExtractStep

SpecExtract == InitExtract /\ [][NextExtract]_vars

-----------------------------------------------------------------------------
(* Claims about extract_events_from_data *)

\* the document inside all envelopes: a dict that has a data key but neither
\* an events nor a buckets key is an envelope of the value of data
RECURSIVE Innermost(_)
Innermost(doc) ==
    IF /\ doc.pytype = "dict"
       /\ "events" \notin DOMAIN doc
       /\ "buckets" \notin DOMAIN doc
       /\ "data" \in DOMAIN doc
    THEN Innermost(doc.data)
    ELSE doc

\* the events of the buckets that have an events key, each with the name of
\* its bucket, buckets in key order and events in their order
RECURSIVE BucketEvents(_)
BucketEvents(items) ==
    IF items = <<>> THEN <<>>
    ELSE LET b == Head(items)
         IN  (IF "events" \in DOMAIN b.value
              THEN [k \in 1..Len(b.value.events) |->
                      [bucket |-> b.name, event |-> b.value.events[k]]]
              ELSE <<>>)
             \o BucketEvents(Tail(items))

\* C15: the shape is picked by fixed priority: a list is the event sequence;
\* else the value of an events key, whatever other keys there are; else the
\* buckets are flattened; else the value of a data key is extracted in the
\* same way, through any number of envelopes; any other dict gives the empty
\* sequence.
C15_ShapePriority ==
    pc = "done" =>
        LET doc == Innermost(input)
        IN  IF doc.pytype = "list" THEN result = doc.items
            ELSE IF "events" \in DOMAIN doc THEN result = doc.events
            ELSE IF "buckets" \in DOMAIN doc
                 THEN Len(result) = Len(BucketEvents(doc.buckets))
                 ELSE result = <<>>

\* inside two envelopes a dict has an events key, a buckets key with an event
\* and an unrecognised key: the value of events is returned
C15_Witness ==
    /\ pc = "done"
    /\ {"data"} = DOMAIN input \ {"pytype"}
    /\ {"data"} = DOMAIN input.data \ {"pytype"}
    /\ {"events", "buckets", "unknown"} = DOMAIN input.data.data \ {"pytype"}
    /\ Len(BucketEvents(input.data.data.buckets)) = 1
    /\ Len(input.data.data.events) = 1
    /\ result = input.data.data.events
    /\ "bucket" \notin DOMAIN result[1]

\* C16: for a buckets document the output is the events of the buckets that
\* have an events key, buckets in key order and events in bucket order, each
\* a copy whose bucket field is the name of its bucket and whose other fields
\* are the event's; the events of the input document are left as they were.
C16_BucketsFlattenedAsCopies ==
    (/\ pc = "done"
     /\ Innermost(input).pytype = "dict"
     /\ "events" \notin DOMAIN Innermost(input)
     /\ "buckets" \in DOMAIN Innermost(input)) =>
        LET tagged == BucketEvents(Innermost(input).buckets)
        IN  /\ Len(result) = Len(tagged)
            /\ \A k \in 1..Len(tagged) :
                 /\ DOMAIN result[k] = DOMAIN tagged[k].event \cup {"bucket"}
                 /\ result[k].bucket = tagged[k].bucket
                 /\ \A key \in DOMAIN tagged[k].event \ {"bucket"} :
                      result[k][key] = tagged[k].event[key]
            /\ events = input

\* two buckets with three events between them, one of which came with a
\* bucket field of its own
C16_Witness ==
    /\ pc = "done"
    /\ input.pytype = "dict"
    /\ DOMAIN input = {"pytype", "buckets"}
    /\ Len(input.buckets) = 2
    /\ input.buckets[1].name = "bucket2"
    /\ Len(result) = 3
    /\ Len(BucketEvents(<<input.buckets[1]>>)) = 2
    /\ result[1].bucket = "bucket2"
    /\ result[3].bucket = "bucket1"
    /\ \E k \in 1..2 : Get(input.buckets[1].value.events[k], "bucket", None) = "old"

-----------------------------------------------------------------------------
(* Date-range selection: is_within_date_range and filter_events_by_date of  *)
(* aw_filter.py, and the copy in aw_date_extractor.py that prints a warning *)
(* for a timestamp it cannot parse.  A date is the number of its day.       *)

MaxDay == 3

\* mutant: the instant is converted to UTC before its date is taken
ActivityDate_Utc(ts) == ParseInstant(ts) \div 86400

\* parser.parse(timestamp_str).date(): the date as written in the string
ActivityDate(ts) == ts.date

\* mutant: the comparison with end_date is turned round
is_within_date_range_EndReversed(timestamp_str, start_date, end_date) ==
    IF Parses(timestamp_str)
    THEN /\ start_date <= ActivityDate(timestamp_str)
         /\ end_date <= ActivityDate(timestamp_str)
    ELSE FALSE

\* start_date <= activity_date <= end_date; False on ValueError, TypeError
is_within_date_range(timestamp_str, start_date, end_date) ==
    IF Parses(timestamp_str)
    THEN /\ start_date <= ActivityDate(timestamp_str)
         /\ ActivityDate(timestamp_str) <= end_date
    ELSE FALSE

filter_events_by_date(evs, start_date, end_date) ==
    SelectSeq(evs, LAMBDA event :
        /\ "timestamp" \in DOMAIN event
        /\ is_within_date_range(event.timestamp, start_date, end_date))

\* aw_date_extractor: the lines is_within_date_range prints while the events
\* are filtered
ParseWarnings(evs) ==
    LET bad == SelectSeq(evs, LAMBDA event :
                   "timestamp" \in DOMAIN event /\ ~Parses(event.timestamp))
    IN  [k \in 1..Len(bad) |->
            [text |-> "Warning: Error parsing timestamp '{timestamp_str}': {e}",
             timestamp_str |-> bad[k].timestamp]]

\* analyze_events on events that may lack a timestamp: event['timestamp']
\* raises KeyError in the daily loop; the outcome is then a record that
\* holds the exception instead of the analysis
AnalyzeOutcome(evs) ==
    IF \E i \in 1..Len(evs) : "timestamp" \notin DOMAIN evs[i]
    THEN [error |-> "KeyError"] ELSE analyze_events(evs)

\* events on days 1..MaxDay, one just after midnight east of UTC, two whose
\* timestamp cannot be parsed and one without a timestamp
DateEvents ==
    {[timestamp |-> Stamp(d, 10, 0, "Z"), duration |-> 1, data |-> [app |-> "Code"]]
        : d \in 1..MaxDay}
    \cup {[timestamp |-> Stamp(2, 0, 0, "+01:00"), duration |-> 1,
           data |-> [app |-> "Code"]],
          [timestamp |-> Stamp(2, 10, 0, "+99:99"), duration |-> 1,
           data |-> [app |-> "Code"]],
          [timestamp |-> Stamp(3, 99, 0, "Z"), duration |-> 1,
           data |-> [app |-> "Code"]],
          [duration |-> 1, data |-> [app |-> "Code"]]}

DateRanges == [start_date : 0..(MaxDay + 1), end_date : 0..(MaxDay + 1)]

InitDates ==
    /\ input \in SeqsUpTo(DateEvents, MaxLen)
    /\ events = input
    /\ config \in DateRanges
    /\ pc = "start"
    /\ filtered = <<>>
    /\ sorted_events = <<>>
    /\ current = EmptyDict
    /\ cur_src = 0
    /\ next_idx = 0
    /\ merged = <<>>
    /\ result = None
    /\ steps = <<>>

\* aw_filter.filter_events_by_date
DateFilterCall ==
    /\ pc = "start"
    /\ result' = filter_events_by_date(events, config.start_date, config.end_date)
    /\ pc' = "filtered"
    /\ UNCHANGED <<input, steps, events, config, filtered, mergeVars>>

\* aw_date_extractor.extract_date_range_data: the same loop, with warnings
DateExtractCall ==
    /\ pc = "start"
    /\ result' = filter_events_by_date(events, config.start_date, config.end_date)
    /\ steps' = ParseWarnings(events)
    /\ pc' = "extracted"
    /\ UNCHANGED <<input, events, config, filtered, mergeVars>>

\* analyze_events on the same events
DatesAnalyze ==
    /\ pc = "start"
    /\ result' = AnalyzeOutcome(events)
    /\ pc' = "analyzed"
    /\ UNCHANGED <<input, steps, events, config, filtered, mergeVars>>

\* merge_consecutive_events on the same events
DatesMerge ==
    /\ pc = "start"
    /\ result' = MergeCall(events, DefaultMaxGap).out
    /\ events' = MergeCall(events, DefaultMaxGap).heap
    /\ pc' = "merged"
    /\ UNCHANGED <<input, steps, config, filtered, mergeVars>>

NextDates ==
    \/ DateFilterCall
    \/ DateExtractCall
    \/ DatesAnalyze
    \/ DatesMerge

SpecDates == InitDates /\ [][NextDates]_vars

-----------------------------------------------------------------------------
(* Claims about timestamps that cannot be parsed and about date selection *)

\* the timestamp of event e is well formed
WellFormed(e) ==
    /\ e.timestamp.zone \in {"Z", "+00:00", "+01:00"}
    /\ e.timestamp.hour >= 0
    /\ e.timestamp.hour <= 23

\* every event has a timestamp and exactly one of them cannot be parsed
OneUnparseable ==
    /\ \A i \in 1..Len(input) : "timestamp" \in DOMAIN input[i]
    /\ Cardinality({i \in 1..Len(input) : ~WellFormed(input[i])}) = 1

\* the events of the input whose date lies in the range of the call
InDateRange ==
    SelectSeq(input, LAMBDA e :
        /\ "timestamp" \in DOMAIN e
        /\ WellFormed(e)
        /\ config.start_date <= e.timestamp.date
        /\ e.timestamp.date <= config.end_date)

RECURSIVE IsSubsequence(_, _)
IsSubsequence(a, b) ==
    IF a = <<>> THEN TRUE
    ELSE IF b = <<>> THEN FALSE
    ELSE IF Head(a) = Head(b) THEN IsSubsequence(Tail(a), Tail(b))
    ELSE IsSubsequence(a, Tail(b))

\* C19: widening the interval never removes an event: what is returned for
\* [start, end] is a subsequence of what is returned for every [start2,
\* end2] with start2 <= start and end <= end2.
C19_DateFilterMonotonic ==
    pc = "filtered" =>
        \A start2 \in 0..config.start_date :
            \A end2 \in config.end_date..(MaxDay + 1) :
                IsSubsequence(result, filter_events_by_date(input, start2, end2))

\* the single day 2 keeps one of three events, the range of days 1 to 3
\* keeps them all
C19_Witness ==
    /\ pc = "filtered"
    /\ config.start_date = 2
    /\ config.end_date = 2
    /\ Len(input) = 3
    /\ Len(result) = 1
    /\ filter_events_by_date(input, 1, 3) = input

-----------------------------------------------------------------------------
(* generate_summary_report of aw_analyze.py, applied to the analysis of an  *)
(* event list.  The duration_formatted strings are left out of the entries. *)

\* mutant: an entry is placed ahead of the entries of equal duration
InsertDesc_TiesFirst(srt, x) ==
    LET ahead == SelectSeq(srt, LAMBDA y : y.duration > x.duration)
        behind == SelectSeq(srt, LAMBDA y : y.duration <= x.duration)
    IN  ahead \o <<x>> \o behind

\* sorted(..., key=duration, reverse=True) is stable: an entry goes behind
\* the entries of greater or equal duration that came before it
InsertDesc(srt, x) ==
    LET ahead == SelectSeq(srt, LAMBDA y : y.duration >= x.duration)
        behind == SelectSeq(srt, LAMBDA y : y.duration < x.duration)
    IN  ahead \o <<x>> \o behind

RECURSIVE SortDescFrom(_, _, _)
SortDescFrom(entries, i, srt) ==
    IF i > Len(entries) THEN srt
    ELSE SortDescFrom(entries, i + 1, InsertDesc(srt, entries[i]))

SortedByDuration(entries) == SortDescFrom(entries, 1, <<>>)

\* s[:n]
SliceTo(s, n) ==
    LET stop == IF n >= 0 THEN (IF n < Len(s) THEN n ELSE Len(s))
                ELSE (IF Len(s) + n > 0 THEN Len(s) + n ELSE 0)
    IN  SubSeq(s, 1, stop)

\* sorted(d.items()): the entries in ascending order of their key
RECURSIVE SortedByKey(_)
SortedByKey(entries) ==
    IF entries = <<>> THEN <<>>
    ELSE LET j == CHOOSE j \in 1..Len(entries) :
                     \A k \in 1..Len(entries) : entries[j].key <= entries[k].key
         IN  <<entries[j]>> \o
             SortedByKey(SelectSeq(entries, LAMBDA y : y.key # entries[j].key))

\* a / b of two numbers, kept as the fraction num / den; a zero divisor
\* raises ZeroDivisionError
Divide(a, b) ==
    IF b = 0 THEN [raises |-> "ZeroDivisionError"] ELSE [num |-> a, den |-> b]

\* the number 0 as a fraction
Zero == [num |-> 0, den |-> 1]

\* q * 100
TimesHundred(q) ==
    IF "raises" \in DOMAIN q THEN q ELSE [num |-> q.num * 100, den |-> q.den]

\* mutant: the quotient is taken whatever the total is
Percentage_Unguarded(duration, total_duration) ==
    TimesHundred(Divide(duration, total_duration))

\* (duration / total_duration * 100) if total_duration > 0 else 0
Percentage(duration, total_duration) ==
    IF total_duration > 0
    THEN TimesHundred(Divide(duration, total_duration))
    ELSE Zero

TopApps(analysis, top_n) ==
    LET top == SliceTo(SortedByDuration(analysis.apps), top_n)
    IN  [k \in 1..Len(top) |->
            [app        |-> top[k].key,
             duration   |-> top[k].duration,
             events     |-> top[k].events,
             percentage |-> Percentage(top[k].duration, analysis.total_duration)]]

TopUrls(analysis, top_n) ==
    LET top == IF analysis.urls # <<>>
               THEN SliceTo(SortedByDuration(analysis.urls), top_n) ELSE <<>>
    IN  [k \in 1..Len(top) |->
            [url        |-> top[k].key,
             title      |-> top[k].title,
             duration   |-> top[k].duration,
             events     |-> top[k].events,
             percentage |-> Percentage(top[k].duration, analysis.total_duration)]]

Breakdown(grouping) == SortedByKey(grouping)

generate_summary_report(analysis, top_n) ==
    [overview         |-> [total_events   |-> analysis.total_events,
                           total_duration |-> analysis.total_duration,
                           date_range     |-> analysis.date_range],
     top_apps         |-> TopApps(analysis, top_n),
     top_urls         |-> TopUrls(analysis, top_n),
     daily_breakdown  |-> Breakdown(analysis.daily),
     hourly_breakdown |-> Breakdown(analysis.hourly)]

\* window events of three apps and web events of two urls, of two durations,
\* and a window event and a web event of duration 0
ReportEvents ==
    {[timestamp |-> tsA, duration |-> d, data |-> [app |-> a, title |-> "a"]]
        : <<d, a>> \in {1, 2} \X {"Code", "Mail", "Term"}}
    \cup {[timestamp |-> tsB, duration |-> d,
           data |-> [app |-> "Web", url |-> u, title |-> "a"]]
            : <<d, u>> \in {1, 2} \X {"u1", "u2"}}
    \cup {[timestamp |-> tsA, duration |-> 0,
           data |-> [app |-> "Code", title |-> "a"]],
          [timestamp |-> tsB, duration |-> 0,
           data |-> [app |-> "Web", url |-> "u1", title |-> "a"]]}

InitReport ==
    /\ input \in SeqsUpTo(ReportEvents, MaxLen)
    /\ events = input
    /\ config \in [top_n : -1..(MaxLen + 1)]
    /\ pc = "start"
    /\ filtered = <<>>
    /\ sorted_events = <<>>
    /\ current = EmptyDict
    /\ cur_src = 0
    /\ next_idx = 0
    /\ merged = <<>>
    /\ result = None
    /\ steps = <<>>

\* analysis = analyze_events(events)
ReportAnalyze ==
    /\ pc = "start"
    /\ result' = analyze_events(events)
    /\ pc' = "analyzed"
    /\ UNCHANGED <<input, steps, events, config, filtered, mergeVars>>

\* generate_summary_report(analysis, top_n)
ReportGenerate ==
    /\ pc = "analyzed"
    /\ result' = generate_summary_report(result, config.top_n)
    /\ pc' = "done"
    /\ UNCHANGED <<input, steps, events, config, filtered, mergeVars>>

NextReport == ReportAnalyze \/ ReportGenerate

SpecReport == InitReport /\ [][NextReport]_vars

-----------------------------------------------------------------------------
(* Claims about generate_summary_report *)

\* the place of entry j of a grouping among its entries by descending
\* duration, entries of equal duration in encounter order
PlaceOf(grouping, j) ==
    1 + Cardinality({i \in 1..Len(grouping) :
                        \/ grouping[i].duration > grouping[j].duration
                        \/ /\ grouping[i].duration = grouping[j].duration
                           /\ i < j})

\* top holds the first top_n entries of the grouping in that order
IsTopOf(top, grouping, top_n, name) ==
    /\ Len(top) = IF top_n < Len(grouping) THEN top_n ELSE Len(grouping)
    /\ \A j \in 1..Len(grouping) :
         PlaceOf(grouping, j) <= top_n =>
            /\ top[PlaceOf(grouping, j)][name] = grouping[j].key
            /\ top[PlaceOf(grouping, j)].duration = grouping[j].duration
            /\ top[PlaceOf(grouping, j)].events = grouping[j].events

\* C20: for top_n >= 0, top_apps and top_urls hold min(top_n, number of
\* entries) entries: the entries of the grouping by descending duration,
\* entries of equal duration in encounter order, cut after the first top_n;
\* top_urls is empty when the urls grouping is empty.
C20_TopNStableDescending ==
    [][(pc = "analyzed" /\ pc' = "done" /\ config.top_n >= 0) =>
        /\ IsTopOf(result'.top_apps, result.apps, config.top_n, "app")
        /\ IsTopOf(result'.top_urls, result.urls, config.top_n, "url")
        /\ result.urls = <<>> => result'.top_urls = <<>>]_vars

\* three apps of equal duration and top_n = 2: the first two apps seen, in
\* that order, and no urls
C20_Witness ==
    /\ pc = "done"
    /\ config.top_n = 2
    /\ Len(input) = 3
    /\ \A i \in 1..3 : input[i].duration = 1
    /\ Cardinality({input[i].data.app : i \in 1..3}) = 3
    /\ Len(result.top_apps) = 2
    /\ result.top_apps[1].app = input[1].data.app
    /\ result.top_apps[2].app = input[2].data.app
    /\ result.top_urls = <<>>

\* C21: every top_apps and top_urls entry has percentage = duration /
\* total_duration * 100 when total_duration > 0 and percentage = 0 when
\* total_duration is 0; no entry is the outcome of a division by zero.
C21_PercentageGuarded ==
    pc = "done" =>
        LET total == result.overview.total_duration
            Right(e) ==
                /\ "raises" \notin DOMAIN e.percentage
                /\ total > 0 =>
                     e.percentage = [num |-> e.duration * 100, den |-> total]
                /\ total = 0 => e.percentage = [num |-> 0, den |-> 1]
        IN  /\ \A k \in 1..Len(result.top_apps) : Right(result.top_apps[k])
            /\ \A k \in 1..Len(result.top_urls) : Right(result.top_urls[k])

\* events that all have duration 0: an app entry and a url entry, both of
\* percentage 0
C21_Witness ==
    /\ pc = "done"
    /\ Len(input) = 2
    /\ \A i \in 1..2 : input[i].duration = 0
    /\ result.overview.total_duration = 0
    /\ Len(result.top_apps) = 2
    /\ Len(result.top_urls) = 1
    /\ result.top_urls[1].percentage = [num |-> 0, den |-> 1]

\* C22: analyze_events of an empty event sequence returns total_events 0,
\* total_duration 0 and empty apps, devices, daily, hourly, urls and
\* date_range; generate_summary_report of that analysis completes and
\* returns empty top_apps, top_urls, daily_breakdown and hourly_breakdown.
C22_EmptyAnalysisAndReport ==
    events = <<>> =>
        /\ pc = "analyzed" =>
            /\ result.total_events = 0
            /\ result.total_duration = 0
            /\ result.apps = <<>>
            /\ result.devices = <<>>
            /\ result.daily = <<>>
            /\ result.hourly = <<>>
            /\ result.urls = <<>>
            /\ DOMAIN result.date_range = {}
        /\ pc = "done" =>
            /\ result.top_apps = <<>>
            /\ result.top_urls = <<>>
            /\ result.daily_breakdown = <<>>
            /\ result.hourly_breakdown = <<>>
            /\ result.overview.total_events = 0
            /\ result.overview.total_duration = 0
            /\ DOMAIN result.overview.date_range = {}

\* the report of no events, asked for the top 3, is empty
C22_Witness ==
    /\ pc = "done"
    /\ events = <<>>
    /\ config.top_n = 3
    /\ result.top_apps = <<>>
    /\ result.hourly_breakdown = <<>>

-----------------------------------------------------------------------------
(* Claims about the urls grouping of analyze_events *)

\* the input events that carry the url key
Sharing(key) ==
    {i \in 1..Len(input) :
        /\ "data" \in DOMAIN input[i]
        /\ "url" \in DOMAIN input[i].data
        /\ input[i].data.url = key}

\* the events among them that carry a title
Titled(key) == {i \in Sharing(key) : "title" \in DOMAIN input[i].data}

\* C23: for each key of the urls grouping the retained title is the longest
\* title that occurs among the events sharing that url, the first one seen
\* winning among titles of equal length; only events whose data.url is
\* present contribute to the grouping.
C23_LongestTitleSeen ==
    pc = "done" =>
        \A k \in 1..Len(result.urls) :
            LET key == result.urls[k].key
            IN  /\ Sharing(key) # {}
                /\ result.urls[k].events = Cardinality(Sharing(key))
                /\ Titled(key) # {} =>
                     \E i \in Titled(key) :
                        /\ result.urls[k].title = input[i].data.title
                        /\ \A h \in Titled(key) :
                              /\ Len(input[h].data.title) <= Len(input[i].data.title)
                              /\ h < i => Len(input[h].data.title)
                                            < Len(input[i].data.title)

-----------------------------------------------------------------------------
(* parse_date of aw_filter.py and aw_date_extractor.py (the two copies are  *)
(* the same).  A date string is a record: "dash" is year-a-b, "slash" is    *)
(* a/b/year, "compact" is the digits year a b, each field of two digits;    *)
(* "words" is a date written out ("June 1, 2025"), "digits" a run of thirty *)
(* digits, "garbage" any other text, "empty" the empty string and "none"    *)
(* the value None.  An outcome is a date [year, month, day], the value None *)
(* [none |-> TRUE], or an exception [raises |-> name].                      *)

TestYear == 2025

DaysIn(month) ==
    CASE month = 2 -> 28
      [] month \in {4, 6, 9, 11} -> 30
      [] OTHER -> 31

ValidDate(month, day) == month \in 1..12 /\ day \in 1..DaysIn(month)

ReturnsNone == [none |-> TRUE]

Raises(name) == [raises |-> name]

DateOf(month, day) == [year |-> TestYear, month |-> month, day |-> day]

Formats == <<"%Y-%m-%d", "%m/%d/%Y", "%d/%m/%Y", "%Y%m%d">>

\* datetime.strptime(date_str, fmt).date()
Strptime(date_str, fmt) ==
    IF date_str.shape = "none" THEN Raises("TypeError")
    ELSE IF fmt = "%Y-%m-%d" /\ date_str.shape = "dash"
              /\ ValidDate(date_str.a, date_str.b)
    THEN DateOf(date_str.a, date_str.b)
    ELSE IF fmt = "%m/%d/%Y" /\ date_str.shape = "slash"
              /\ ValidDate(date_str.a, date_str.b)
    THEN DateOf(date_str.a, date_str.b)
    ELSE IF fmt = "%d/%m/%Y" /\ date_str.shape = "slash"
              /\ ValidDate(date_str.b, date_str.a)
    THEN DateOf(date_str.b, date_str.a)
    ELSE IF fmt = "%Y%m%d" /\ date_str.shape = "compact"
              /\ ValidDate(date_str.a, date_str.b)
    THEN DateOf(date_str.a, date_str.b)
    ELSE Raises("ValueError")

\* dateutil's parser.parse(date_str).date(), as python-dateutil answers the
\* strings of the model: a date written out is read, a run of thirty digits
\* overflows, None is a TypeError and the rest is not a date
LenientParse(date_str) ==
    CASE date_str.shape = "words"  -> DateOf(date_str.a, date_str.b)
      [] date_str.shape = "digits" -> Raises("OverflowError")
      [] date_str.shape = "none"   -> Raises("TypeError")
      [] OTHER                     -> Raises("ValueError")

\* except (ValueError, TypeError): return None
Caught(outcome) ==
    IF "raises" \in DOMAIN outcome
       /\ (outcome.raises = "ValueError" \/ outcome.raises = "TypeError")
    THEN ReturnsNone
    ELSE outcome

\* the for loop over the formats: the first that parses returns, a
\* ValueError continues, another exception leaves the loop
RECURSIVE TryFormats(_, _, _)
TryFormats(date_str, fmts, k) ==
    IF k > Len(fmts) THEN LenientParse(date_str)
    ELSE LET outcome == Strptime(date_str, fmts[k])
         IN  IF outcome = Raises("ValueError")
             THEN TryFormats(date_str, fmts, k + 1)
             ELSE outcome

parse_date(date_str) == Caught(TryFormats(date_str, Formats, 1))

\* the two-digit fields tried: months, days, and days no month has
DateFields == {0, 1, 2, 6, 12, 13, 28, 29, 30, 31, 32}

DateStrings ==
    [shape : {"dash", "slash", "compact"}, a : DateFields, b : DateFields]
    \cup [shape : {"words"}, a : {6}, b : {1}]
    \cup [shape : {"digits", "garbage", "empty", "none"}, a : {0}, b : {0}]

InitParse ==
    /\ input \in DateStrings
    /\ events = <<>>
    /\ config = EmptyDict
    /\ pc = "start"
    /\ filtered = <<>>
    /\ sorted_events = <<>>
    /\ current = EmptyDict
    /\ cur_src = 0
    /\ next_idx = 0
    /\ merged = <<>>
    /\ result = ReturnsNone
    /\ steps = <<>>

\* start_date = parse_date(args.start)
ParseDateCall ==
    /\ pc = "start"
    /\ result' = parse_date(input)
    /\ pc' = "done"
    /\ UNCHANGED <<input, steps, events, config, filtered, mergeVars>>

NextParse == ParseDateCall

SpecParse == InitParse /\ [][NextParse]_vars

-----------------------------------------------------------------------------
(* Claims about parse_date *)

\* the lenient parser accepts the string
LenientAccepts(date_str) == "raises" \notin DOMAIN LenientParse(date_str)

\* the date a string has under the fixed formats in their order, if any
FixedReading(date_str) ==
    CASE date_str.shape \in {"dash", "compact"}
            /\ ValidDate(date_str.a, date_str.b) -> DateOf(date_str.a, date_str.b)
      [] date_str.shape = "slash"
            /\ ValidDate(date_str.a, date_str.b) -> DateOf(date_str.a, date_str.b)
      [] date_str.shape = "slash"
            /\ ~ValidDate(date_str.a, date_str.b)
            /\ ValidDate(date_str.b, date_str.a) -> DateOf(date_str.b, date_str.a)
      [] OTHER -> ReturnsNone

\* C24: parse_date returns the date of the first of the formats YYYY-MM-DD,
\* MM/DD/YYYY, DD/MM/YYYY, YYYYMMDD that matches, so a slash date is read
\* month-first and day-first only when the month-first reading is invalid;
\* when no fixed format and not the lenient parser accepts the input it
\* returns None and never raises, for empty and None input too.
C24_ParseDateOrderAndNone ==
    pc = "done" =>
        /\ "raises" \notin DOMAIN result
        /\ IF FixedReading(input) # ReturnsNone THEN result = FixedReading(input)
           ELSE IF LenientAccepts(input) THEN result = LenientParse(input)
           ELSE result = ReturnsNone

-----------------------------------------------------------------------------
(* clean_activitywatch_data of aw_clean.py and filter_activitywatch_data of *)
(* aw_filter.py, on the JSON documents of the extraction model.  A call     *)
(* returns a document or an exception [raises |-> name].                    *)

IsRaise(outcome) == "raises" \in DOMAIN outcome

\* mutant: a mapping of unknown format comes back empty
UnknownFormat_Emptied(data) == JsonDict(EmptyDict)

\* else: return data
UnknownFormat(data) == data

\* the events of one list passed through fn: [items |-> the list returned]
\* or the exception fn raises
FilteredList(evs, fn(_)) ==
    LET out == fn(evs)
    IN  IF out = "KeyError" \/ out = "ValueError" THEN Raises(out)
        ELSE [items |-> out]

\* for bucket_name, bucket_data in data['buckets'].items(): the bucket
\* copied and its events, if any, passed through fn
BucketsThrough(buckets, fn(_)) ==
    [i \in 1..Len(buckets) |->
        IF "events" \in DOMAIN buckets[i].value
        THEN [name  |-> buckets[i].name,
              value |-> SetKey(buckets[i].value, "events",
                               FilteredList(buckets[i].value.events, fn).items)]
        ELSE buckets[i]]

\* the body the two functions share: fn is the function applied to every
\* list of events
DataThrough(data, fn(_)) ==
    IF data.pytype = "int" THEN Raises("TypeError")
    ELSE IF data.pytype = "list"
    THEN LET out == FilteredList(data.items, fn)
         IN  IF IsRaise(out) THEN out ELSE JsonList(out.items)
    ELSE IF "buckets" \notin DOMAIN data
    THEN IF "events" \in DOMAIN data
         THEN LET out == FilteredList(data.events, fn)
              IN  IF IsRaise(out) THEN out ELSE SetKey(data, "events", out.items)
         ELSE UnknownFormat(data)
    ELSE LET failed == {i \in 1..Len(data.buckets) :
                          /\ "events" \in DOMAIN data.buckets[i].value
                          /\ IsRaise(FilteredList(data.buckets[i].value.events, fn))}
         IN  IF failed # {}
             THEN FilteredList(
                    data.buckets[CHOOSE i \in failed : \A j \in failed : i <= j]
                        .value.events, fn)
             ELSE JsonDict([buckets |-> BucketsThrough(data.buckets, fn)])

clean_activitywatch_data(data, filter_options) ==
    DataThrough(data, LAMBDA evs : filter_events(evs, filter_options))

filter_activitywatch_data(data, start_date, end_date) ==
    DataThrough(data, LAMBDA evs : filter_events_by_date(evs, start_date, end_date))

\* the cleaning defaults and a date range that ends on day 2
DataConfigs ==
    {Update(DefaultConfig, r) : r \in [start_date : {1, 2}, end_date : {2}]}

InitData ==
    /\ input \in ExtractDocs
    /\ events = input
    /\ config \in DataConfigs
    /\ pc = "start"
    /\ filtered = <<>>
    /\ sorted_events = <<>>
    /\ current = EmptyDict
    /\ cur_src = 0
    /\ next_idx = 0
    /\ merged = <<>>
    /\ result = ReturnsNone
    /\ steps = <<>>

\* cleaned_data = clean_activitywatch_data(data, **filter_options)
CleanDataCall ==
    /\ pc = "start"
    /\ result' = clean_activitywatch_data(events, config)
    /\ pc' = "cleaned"
    /\ UNCHANGED <<input, steps, events, config, filtered, mergeVars>>

\* filtered_data = filter_activitywatch_data(data, start_date, end_date)
FilterDataCall ==
    /\ pc = "start"
    /\ result' = filter_activitywatch_data(events, config.start_date, config.end_date)
    /\ pc' = "filtered"
    /\ UNCHANGED <<input, steps, events, config, filtered, mergeVars>>

NextData == CleanDataCall \/ FilterDataCall

SpecData == InitData /\ [][NextData]_vars

-----------------------------------------------------------------------------
(* Claims about clean_activitywatch_data and filter_activitywatch_data *)

\* C27: both functions return their input unchanged, without error, when it
\* is a mapping with neither a buckets key nor an events key, a {data: ...}
\* envelope included, whose wrapped events are then neither filtered nor
\* cleaned.
C27_UnknownFormatUnchanged ==
    (/\ pc \in {"cleaned", "filtered"}
     /\ input.pytype = "dict"
     /\ "buckets" \notin DOMAIN input
     /\ "events" \notin DOMAIN input)
    => /\ result = input
       /\ events = input

\* an envelope around a list whose event is below the minimum duration and
\* an envelope around one with an event outside the date range, both returned
\* as they are
C27_Witness ==
    /\ "data" \in DOMAIN input
    /\ DOMAIN input = {"pytype", "data"}
    /\ input.data.pytype = "list"
    /\ Len(input.data.items) = 1
    /\ result = input
    /\ \/ /\ pc = "cleaned"
          /\ input.data.items[1].duration < config.min_duration_seconds
       \/ /\ pc = "filtered"
          /\ input.data.items[1].timestamp.date < config.start_date

-----------------------------------------------------------------------------
(* process_directory of aw_analyze.py, aw_clean.py and aw_filter.py.  The   *)
(* directory is `input`: whether it exists and its *.json files in the      *)
(* order glob yields them, each a name (its rank in name order) and a text. *)
(* sorted_events holds sorted(json_files), next_idx the position of the     *)
(* loop, and result the lines written to stdout and stderr and, once the    *)
(* process has ended, its exit code.                                        *)

MaxFiles == 3

\* a file that is not JSON, and the JSON number 42
InvalidJson == [pytype |-> "invalid"]

JsonInt == [pytype |-> "int"]

\* json.load(f)
json_load(text) ==
    IF text.pytype = "invalid" THEN Raises("JSONDecodeError") ELSE text

\* sorted(json_files)
RECURSIVE SortedFiles(_)
SortedFiles(files) ==
    IF files = <<>> THEN <<>>
    ELSE LET j == CHOOSE j \in 1..Len(files) :
                     \A k \in 1..Len(files) : files[j].name <= files[k].name
         IN  <<files[j]>> \o
             SortedFiles(SelectSeq(files, LAMBDA f : f.name # files[j].name))

\* aw_analyze: extract, analyze, and summarise when asked to
AnalyzeFile(data, options) ==
    IF data.pytype = "int" THEN Raises("TypeError")
    ELSE LET analysis == AnalyzeOutcome(extract_events_from_data(data))
         IN  IF "error" \in DOMAIN analysis THEN Raises(analysis.error)
             ELSE IF options.output_format = "summary"
             THEN generate_summary_report(analysis, options.top_n)
             ELSE analysis

\* the body of the try block for one file: the line printed to stdout, or
\* the exception raised
ProcessFile(file, options) ==
    LET data == json_load(file.text)
    IN  IF IsRaise(data) THEN data
        ELSE LET out ==
                   CASE options.tool = "analyze" -> AnalyzeFile(data, options)
                     [] options.tool = "clean" ->
                            clean_activitywatch_data(data, options)
                     [] options.tool = "filter" ->
                            filter_activitywatch_data(data, options.start_date,
                                                      options.end_date)
             IN  IF IsRaise(out) THEN out
                 ELSE [source_file |-> file.name, out |-> out]

\* mutant: the first failure ends the loop
AfterFailure_Abort(idx, n) == n + 1

\* except Exception as e: print(...): the loop goes on with the next file
AfterFailure(idx, n) == idx + 1

\* an event that every tool processes, and one without a timestamp
GoodEvent == [timestamp |-> ts0, duration |-> 2, data |-> [app |-> "Code"]]

NoTimestampEvent == [duration |-> 2, data |-> [app |-> "Code"]]

FileTexts ==
    {InvalidJson, JsonInt, JsonList(<<GoodEvent>>), JsonList(<<NoTimestampEvent>>),
     JsonDict([data |-> JsonList(<<GoodEvent>>)])}

\* the *.json files of a directory in any order, names distinct
FileLists ==
    {fs \in SeqsUpTo([name : 1..MaxFiles, text : FileTexts], MaxFiles) :
        \A i, j \in 1..Len(fs) : i # j => fs[i].name # fs[j].name}

Directories ==
    {[exists |-> FALSE, files |-> <<>>]}
    \cup {[exists |-> TRUE, files |-> fs] : fs \in FileLists}

ToolOptions ==
    {Update(Update(DefaultConfig, [start_date |-> 1, end_date |-> 2]), t) :
        t \in {[tool |-> "analyze", output_format |-> "full", top_n |-> 1],
               [tool |-> "analyze", output_format |-> "summary", top_n |-> 1],
               [tool |-> "clean", output_format |-> "full", top_n |-> 1],
               [tool |-> "filter", output_format |-> "full", top_n |-> 1]}}

InitDirectory ==
    /\ input \in Directories
    /\ events = <<>>
    /\ config \in ToolOptions
    /\ pc = "start"
    /\ filtered = <<>>
    /\ sorted_events = <<>>
    /\ current = EmptyDict
    /\ cur_src = 0
    /\ next_idx = 0
    /\ merged = <<>>
    /\ result = [stdout |-> <<>>, stderr |-> <<>>]
    /\ steps = <<>>

\* the directory and file list checks, and sorted(json_files)
DirectoryStart ==
    /\ pc = "start"
    /\ IF ~input.exists
       THEN /\ result' = [stdout |-> <<>>, exit_code |-> 1,
                          stderr |-> <<[error |-> "not a valid directory"]>>]
            /\ pc' = "exited"
            /\ UNCHANGED <<sorted_events, next_idx>>
       ELSE IF input.files = <<>>
       THEN /\ result' = [stdout |-> <<>>, exit_code |-> 1,
                          stderr |-> <<[error |-> "No JSON files found"]>>]
            /\ pc' = "exited"
            /\ UNCHANGED <<sorted_events, next_idx>>
       ELSE /\ sorted_events' = SortedFiles(input.files)
            /\ next_idx' = 1
            /\ pc' = "loop"
            /\ UNCHANGED result
    /\ UNCHANGED <<input, steps, events, config, filtered, current, cur_src, merged>>

\* one turn of the loop: the try block and its except clause
DirectoryFile ==
    /\ pc = "loop"
    /\ next_idx <= Len(sorted_events)
    /\ LET json_file == sorted_events[next_idx]
           line == ProcessFile(json_file, config)
       IN  IF IsRaise(line)
           THEN /\ result' = [result EXCEPT !.stderr =
                                Append(@, [source_file |-> json_file.name,
                                           error |-> line.raises])]
                /\ next_idx' = AfterFailure(next_idx, Len(sorted_events))
           ELSE /\ result' = [result EXCEPT !.stdout = Append(@, line)]
                /\ next_idx' = next_idx + 1
    /\ UNCHANGED <<input, steps, events, config, pc, filtered, sorted_events,
                   current, cur_src, merged>>

\* the loop is over: process_directory and main return, exit code 0
DirectoryReturn ==
    /\ pc = "loop"
    /\ next_idx > Len(sorted_events)
    /\ result' = [stdout |-> result.stdout, stderr |-> result.stderr,
                  exit_code |-> 0]
    /\ pc' = "exited"
    /\ UNCHANGED <<input, steps, events, config, filtered, mergeVars>>

NextDirectory == DirectoryStart \/ DirectoryFile \/ DirectoryReturn

SpecDirectory == InitDirectory /\ [][NextDirectory]_vars

-----------------------------------------------------------------------------
(* Claims about directory mode *)

\* file k of the sorted list loads and processes
Succeeds(k) == ~IsRaise(ProcessFile(SortedFiles(input.files)[k], config))

\* the names of the files among the first n in name order that do, and
\* that do not, load and process
NamesOf(n, ok) ==
    LET srt == SortedFiles(input.files)
        idx == SelectSeq([k \in 1..n |-> k], LAMBDA k : Succeeds(k) = ok)
    IN  [k \in 1..Len(idx) |-> srt[idx[k]].name]

\* C25: in directory mode the files are processed one after another in
\* sorted name order; a file that loads and processes yields exactly one
\* output line, a file that fails an error message and no output line, every
\* later file is still processed, and the run ends with exit code 0.
C25_DirectoryIsolation ==
    /\ pc = "loop" =>
        /\ next_idx \in 1..(Len(input.files) + 1)
        /\ [k \in 1..Len(result.stdout) |-> result.stdout[k].source_file]
              = NamesOf(next_idx - 1, TRUE)
        /\ [k \in 1..Len(result.stderr) |-> result.stderr[k].source_file]
              = NamesOf(next_idx - 1, FALSE)
    /\ (pc = "exited" /\ input.files # <<>>) =>
        /\ result.exit_code = 0
        /\ [k \in 1..Len(result.stdout) |-> result.stdout[k].source_file]
              = NamesOf(Len(input.files), TRUE)
        /\ [k \in 1..Len(result.stderr) |-> result.stderr[k].source_file]
              = NamesOf(Len(input.files), FALSE)

\* three files listed out of order: the first is not JSON, the second fails
\* in processing, the third yields the only output line
C25_Witness ==
    /\ pc = "exited"
    /\ Len(input.files) = 3
    /\ input.files[1].name = 3
    /\ sorted_events[1].text = InvalidJson
    /\ sorted_events[2].text = JsonList(<<NoTimestampEvent>>)
    /\ config.tool = "clean"
    /\ Len(result.stdout) = 1
    /\ result.stdout[1].source_file = 3
    /\ Len(result.stderr) = 2
    /\ result.exit_code = 0

-----------------------------------------------------------------------------
(* main of aw_filter.py and of aw_date_extractor.py.  `config` holds the    *)
(* arguments of the run, `input` what the run finds: the text of stdin, the *)
(* input file and the directory.  Day d of the events is June d of the test *)
(* year.  The outcome is the exit code of the process and what it reports;  *)
(* an exception that nothing catches ends the process with exit code 1.     *)

\* a date as the day number the events carry: June d is day d
DayNumber(date) == (date.month - 6) * 31 + date.day

Exit(code, report) == [exit_code |-> code, report |-> report]

\* the first pair of the bucket dict: list(data['buckets'].keys())[0]
FirstBucket(data) == data.buckets[1].value

\* load_activitywatch_data: [events |-> the first bucket's events], or the
\* pair (None, []) as ReturnsNone: the file is missing, is not JSON, has no
\* buckets key, or raises another exception (a JSON number, no bucket)
load_activitywatch_data(file) ==
    IF ~file.exists THEN ReturnsNone
    ELSE IF IsRaise(json_load(file.text)) THEN ReturnsNone
    ELSE IF file.text.pytype = "int" THEN ReturnsNone
    ELSE IF file.text.pytype = "list" \/ "buckets" \notin DOMAIN file.text
    THEN ReturnsNone
    ELSE IF file.text.buckets = <<>> THEN ReturnsNone
    ELSE [events |-> Get(FirstBucket(file.text), "events", <<>>)]

\* process_single_file: True when entries were found and saved
process_single_file(file, start_date, end_date) ==
    LET loaded == load_activitywatch_data(file)
    IN  IF loaded = ReturnsNone THEN FALSE
        ELSE filter_events_by_date(loaded.events, start_date, end_date) # <<>>

\* the date checks the two main functions share: an outcome that ends the
\* run, or the two dates
ParseDates(args) ==
    LET start_date == parse_date(args.start)
        end_date == parse_date(args.end)
    IN  IF IsRaise(start_date) THEN Exit(1, start_date.raises)
        ELSE IF start_date = ReturnsNone THEN Exit(1, "Invalid start date format")
        ELSE IF IsRaise(end_date) THEN Exit(1, end_date.raises)
        ELSE IF end_date = ReturnsNone THEN Exit(1, "Invalid end date format")
        ELSE IF DayNumber(start_date) > DayNumber(end_date)
        THEN Exit(1, "Start date must be before or equal to end date")
        ELSE [start_date |-> DayNumber(start_date), end_date |-> DayNumber(end_date)]

\* process_directory as a whole: the exit it makes, or exit code 0 when it
\* returns
process_directory(directory, options) ==
    IF ~directory.exists THEN Exit(1, "not a valid directory")
    ELSE IF directory.files = <<>> THEN Exit(1, "No JSON files found")
    ELSE Exit(0, "processed")

filter_main(args, world) ==
    LET dates == ParseDates(args)
    IN  IF "exit_code" \in DOMAIN dates THEN dates
        ELSE IF args.directory
        THEN IF args.input_file
             THEN Exit(1, "Cannot specify both input file and directory")
             ELSE process_directory(world.directory, args)
        ELSE IF args.input_file /\ ~world.file.exists
        THEN Exit(1, "File not found")
        ELSE LET text == IF args.input_file THEN world.file.text ELSE world.stdin
                 data == json_load(text)
             IN  IF IsRaise(data) THEN Exit(1, "Invalid JSON input")
                 ELSE LET out == filter_activitywatch_data(
                                    data, dates.start_date, dates.end_date)
                      IN  IF IsRaise(out) THEN Exit(1, out.raises)
                          ELSE Exit(0, "printed")

\* the directory mode of the extractor: every file is processed, and the
\* run fails only when there is no file
ExtractorDirectory(directory, dates) ==
    LET json_files == IF directory.exists THEN SortedFiles(directory.files) ELSE <<>>
        successful_files ==
            Cardinality({k \in 1..Len(json_files) :
                process_single_file([exists |-> TRUE, text |-> json_files[k].text],
                                    dates.start_date, dates.end_date)})
    IN  IF json_files = <<>> THEN Exit(1, "No JSON files found in directory")
        ELSE [exit_code |-> 0, report |-> "Extraction complete!",
              successful_files |-> successful_files]

extractor_main(args, world) ==
    LET dates == ParseDates(args)
    IN  IF "exit_code" \in DOMAIN dates THEN dates
        ELSE IF ~args.input_file /\ ~args.directory
        THEN Exit(1, "You must specify either a filename or use -d/--directory")
        ELSE IF args.input_file /\ args.directory
        THEN Exit(1, "Cannot specify both filename and directory")
        ELSE IF args.directory THEN ExtractorDirectory(world.directory, dates)
        ELSE IF ~process_single_file(world.file, dates.start_date, dates.end_date)
        THEN Exit(1, "not successful")
        ELSE Exit(0, "Extraction complete!")

\* a bucket export with one event on day 1
BucketExport ==
    JsonDict([buckets |-> <<[name  |-> "bucket1",
                            value |-> [type |-> "currentwindow",
                                       events |-> <<GoodEvent>>]]>>])

June(d) == [shape |-> "dash", a |-> 6, b |-> d]

DateArgs ==
    {June(1), June(2), [shape |-> "garbage", a |-> 0, b |-> 0],
     [shape |-> "digits", a |-> 0, b |-> 0]}

MainTexts == {InvalidJson, JsonInt, JsonList(<<GoodEvent>>), BucketExport}

Worlds ==
    [stdin     : {InvalidJson, JsonList(<<GoodEvent>>)},
     file      : {[exists |-> FALSE, text |-> InvalidJson]}
                 \cup [exists : {TRUE}, text : MainTexts],
     directory : {[exists |-> FALSE, files |-> <<>>],
                  [exists |-> TRUE, files |-> <<>>]}
                 \cup {[exists |-> TRUE, files |-> <<[name |-> 1, text |-> t]>>] :
                         t \in MainTexts}]

MainArgs ==
    {Update(DefaultConfig, a) :
        a \in [tool : {"filter", "extractor"}, start : DateArgs, end : DateArgs,
               input_file : BOOLEAN, directory : BOOLEAN]}

InitMain ==
    /\ input \in Worlds
    /\ events = <<>>
    /\ config \in MainArgs
    /\ pc = "start"
    /\ filtered = <<>>
    /\ sorted_events = <<>>
    /\ current = EmptyDict
    /\ cur_src = 0
    /\ next_idx = 0
    /\ merged = <<>>
    /\ result = ReturnsNone
    /\ steps = <<>>

\* aw-filter
FilterMain ==
    /\ pc = "start"
    /\ config.tool = "filter"
    /\ result' = filter_main(config, input)
    /\ pc' = "exited"
    /\ UNCHANGED <<input, steps, events, config, filtered, mergeVars>>

\* aw_date_extractor
ExtractorMain ==
    /\ pc = "start"
    /\ config.tool = "extractor"
    /\ result' = extractor_main(config, input)
    /\ pc' = "exited"
    /\ UNCHANGED <<input, steps, events, config, filtered, mergeVars>>

NextMain == FilterMain \/ ExtractorMain

SpecMain == InitMain /\ [][NextMain]_vars

-----------------------------------------------------------------------------
(* Claims about the exit codes *)

ValidDateArg(date_str) == FixedReading(date_str) # ReturnsNone

\* the run reads one file or stdin
SingleMode == ~config.directory

\* the conditions the exit code 1 is claimed for: an invalid date, a start
\* date after the end date, both or (extractor) neither of file and directory,
\* a missing directory or one without files, and in single mode a missing
\* file or invalid JSON
ListedFailure ==
    \/ ~ValidDateArg(config.start)
    \/ ~ValidDateArg(config.end)
    \/ config.start.b > config.end.b
    \/ config.input_file /\ config.directory
    \/ config.tool = "extractor" /\ ~config.input_file /\ ~config.directory
    \/ config.directory /\ (~input.directory.exists \/ input.directory.files = <<>>)
    \/ /\ SingleMode
       /\ config.input_file
       /\ (~input.file.exists \/ input.file.text = InvalidJson)
    \/ /\ SingleMode
       /\ ~config.input_file
       /\ config.tool = "filter"
       /\ input.stdin = InvalidJson

\* the run reads a file of events none of which is in the date range
NoMatchingEntries ==
    /\ ~ListedFailure
    /\ SingleMode
    /\ config.input_file
    /\ input.file.text = (IF config.tool = "filter" THEN JsonList(<<GoodEvent>>)
                          ELSE BucketExport)
    /\ config.start = June(2)

\* C26: a run exits with code 1 exactly when it meets invalid JSON, a
\* missing file, an invalid date format, a start date after the end date or
\* both a file and a directory, and with code 0 otherwise; a run in which no
\* event matches the date range exits with code 0, in the filter tool and in
\* the date-range extractor alike.
C26_ExitCodes ==
    pc = "exited" =>
        /\ result.exit_code = (IF ListedFailure THEN 1 ELSE 0)
        /\ NoMatchingEntries => result.exit_code = 0

-----------------------------------------------------------------------------
(* The two copies of the pipeline side by side: filter_events of aw_clean   *)
(* and ActivityWatchCleaner.filter_events of aw_deduper as functions of the *)
(* event list and of one option record.                                     *)

\* if self.config['exclude_apps']: None and the empty list are false
Truthy(exclude_apps) ==
    IF exclude_apps = None THEN FALSE ELSE exclude_apps # <<>>

\* mutant: the cleaner skips the deduplication step
CleanerFilter_NoDedupe(evs, cfg) ==
    LET f1 == IF cfg.remove_zero_duration
              THEN SelectSeq(evs, KeepsNonZero) ELSE evs
        f2 == IF cfg.min_duration_seconds > 0
              THEN SelectSeq(f1, LAMBDA e : KeepsMinDuration(e, cfg.min_duration_seconds))
              ELSE f1
        f3 == IF Truthy(cfg.exclude_apps)
              THEN SelectSeq(f2, LAMBDA e : KeepsApp(e, cfg.exclude_apps)) ELSE f2
    IN  IF cfg.merge_consecutive
        THEN merge_consecutive_events(f3, cfg.max_gap_seconds) ELSE f3

\* the list ActivityWatchCleaner(cfg).filter_events(evs) returns beside its
\* log
CleanerFilter(evs, cfg) ==
    LET f1 == IF cfg.remove_zero_duration
              THEN SelectSeq(evs, KeepsNonZero) ELSE evs
        f2 == IF cfg.min_duration_seconds > 0
              THEN SelectSeq(f1, LAMBDA e : KeepsMinDuration(e, cfg.min_duration_seconds))
              ELSE f1
        f3 == IF Truthy(cfg.exclude_apps)
              THEN SelectSeq(f2, LAMBDA e : KeepsApp(e, cfg.exclude_apps)) ELSE f2
        f4 == IF cfg.deduplicate_simultaneous
              THEN deduplicate_simultaneous_events(f3) ELSE f3
    IN  IF cfg.deduplicate_simultaneous /\ DedupeRaises(f3) THEN "KeyError"
        ELSE IF cfg.merge_consecutive
        THEN merge_consecutive_events(f4, cfg.max_gap_seconds) ELSE f4

\* the step model of the cleaner returns this list
CleanerStepsAgree ==
    pc = "done" => result[1] = CleanerFilter(input, config)

InitCopies ==
    /\ input \in SeqsUpTo(FilterEvents, MaxLen)
    /\ events = input
    /\ config \in FilterConfigs
    /\ pc = "start"
    /\ filtered = <<>>
    /\ sorted_events = <<>>
    /\ current = EmptyDict
    /\ cur_src = 0
    /\ next_idx = 0
    /\ merged = <<>>
    /\ result = <<>>
    /\ steps = <<>>

\* aw_clean.filter_events(events, **config)
CleanCopyCall ==
    /\ pc = "start"
    /\ result' = filter_events(events, config)
    /\ pc' = "cleaned"
    /\ UNCHANGED <<input, steps, events, config, filtered, mergeVars>>

\* ActivityWatchCleaner(config).filter_events(events)[0]
CleanerCopyCall ==
    /\ pc = "start"
    /\ result' = CleanerFilter(events, config)
    /\ pc' = "cleaner"
    /\ UNCHANGED <<input, steps, events, config, filtered, mergeVars>>

NextCopies == CleanCopyCall \/ CleanerCopyCall

SpecCopies == InitCopies /\ [][NextCopies]_vars

-----------------------------------------------------------------------------
(* Claims about the two copies *)

\* C28 as claimed: for every event sequence and every setting of the options
\* the two copies return the same cleaned sequence.
C28_CopiesAgree ==
    /\ pc = "cleaned" => result = CleanerFilter(input, config)
    /\ pc = "cleaner" => result = filter_events(input, config)

\* the options with the default exclusion list written out in place of None
Spelled(cfg) ==
    IF cfg.exclude_apps = None
    THEN [cfg EXCEPT !.exclude_apps = CleanerDefaults.exclude_apps]
    ELSE cfg

\* C28, amended: the two copies return the same cleaned sequence for every
\* event sequence and every setting in which exclude_apps is a list; for
\* exclude_apps = None aw_clean excludes the default apps, as the cleaner
\* does when it is given that list, while the cleaner given None excludes
\* nothing.
C28_CopiesAgreeOnLists ==
    /\ pc = "cleaned" => result = CleanerFilter(input, Spelled(config))
    /\ pc = "cleaner" =>
        /\ config.exclude_apps # None => result = filter_events(input, config)
        /\ config.exclude_apps = None =>
              result = filter_events(input, [config EXCEPT !.exclude_apps = <<>>])

\* an exclusion list given to both copies: the event of the excluded app is
\* dropped and the two others are returned by both
C28_Witness ==
    /\ pc = "cleaner"
    /\ config.exclude_apps # None
    /\ config.exclude_apps = <<"Code">>
    /\ config.remove_zero_duration
    /\ config.deduplicate_simultaneous
    /\ config.merge_consecutive
    /\ config.min_duration_seconds = DefaultMinDuration
    /\ Len(input) = 3
    /\ input[1].data.app = "Code"
    /\ input[2].data.app = "loginwindow"
    /\ input[3].data.app = "Mail"
    /\ result = <<input[2], input[3]>>
    /\ result = filter_events(input, config)


-----------------------------------------------------------------------------
(* filter_events applied to its own output. Durations are Python floats and  *)
(* timedelta keeps whole microseconds, so this part counts durations in      *)
(* quarters of a microsecond: timedelta(seconds=duration) rounds them        *)

\* the duration quanta of this part in one microsecond
Quanta == 4

MicrosPerSecond == 1000000

\* a duration given in seconds, in quanta
Seconds(n) == n * MicrosPerSecond * Quanta

\* timedelta(seconds=d) in quanta: d is rounded to whole microseconds, to
\* nearest, ties to even
TimeDelta(d) ==
    LET q == d \div Quanta
        r == d % Quanta
    IN  IF 2 * r < Quanta THEN q * Quanta
        ELSE IF 2 * r > Quanta THEN (q + 1) * Quanta
        ELSE IF q % 2 = 0 THEN q * Quanta ELSE (q + 1) * Quanta

\* gap = (next_start - current_end).total_seconds(), in quanta, with
\* current_end = current_start + timedelta(seconds=current.get('duration', 0))
GapQ(cur, nxt) == Seconds(Start(nxt) - Start(cur)) - TimeDelta(Duration(cur))

\* current_app == next_app and 0 <= gap <= max_gap_seconds
CanMergeQ(cur, nxt, max_gap) ==
    /\ AppOf(cur) = AppOf(nxt)
    /\ 0 <= GapQ(cur, nxt)
    /\ GapQ(cur, nxt) <= Seconds(max_gap)

\* current['duration'] = (next_end - current_start).total_seconds(), with
\* next_end = next_start + timedelta(seconds=next_event.get('duration', 0))
MergedDurationQ(cur, nxt) ==
    Seconds(Start(nxt) - Start(cur)) + TimeDelta(Duration(nxt))

\* the accumulator after the merge branch
AbsorbQ(cur, nxt) ==
    LET c1 == SetKey(cur, "duration", MergedDurationQ(cur, nxt))
    IN  IF TitleReplaced(cur, nxt)
        THEN SetKey(c1, "data", SetKey(c1.data, "title", TitleOf(nxt)))
        ELSE c1

\* the loop over sorted_events[1:], from position i
RECURSIVE MergeLoopQ(_, _, _, _, _, _)
MergeLoopQ(evs, srt, i, cur, out, max_gap) ==
    IF i > Len(srt) THEN EmitLast(out, cur)
    ELSE LET nxt == evs[srt[i]]
         IN  IF CanMergeQ(cur, nxt, max_gap)
             THEN MergeLoopQ(evs, srt, i + 1, AbsorbQ(cur, nxt), out, max_gap)
             ELSE MergeLoopQ(evs, srt, i + 1, nxt, Append(out, cur), max_gap)

\* merge_consecutive_events on events that all carry a parseable timestamp and
\* a data dict
MergeQ(evs, max_gap) ==
    IF evs = <<>> THEN <<>>
    ELSE LET srt == SortedIndices(evs)
         IN  MergeLoopQ(evs, srt, 2, evs[srt[1]], <<>>, max_gap)

\* filter_events on such events
FilterQ(evs, cfg) ==
    LET list == ExcludeList(cfg.exclude_apps)
        f1 == IF cfg.remove_zero_duration
              THEN SelectSeq(evs, KeepsNonZero) ELSE evs
        f2 == IF cfg.min_duration_seconds > 0
              THEN SelectSeq(f1, LAMBDA e :
                       KeepsMinDuration(e, Seconds(cfg.min_duration_seconds)))
              ELSE f1
        f3 == IF list # <<>>
              THEN SelectSeq(f2, LAMBDA e : KeepsApp(e, list)) ELSE f2
        f4 == IF cfg.deduplicate_simultaneous
              THEN deduplicate_simultaneous_events(f3) ELSE f3
    IN  IF cfg.merge_consecutive THEN MergeQ(f4, cfg.max_gap_seconds) ELSE f4

tsZ == Stamp(1, 10, 0, "Z")

ts1 == Stamp(1, 10, 1, "+00:00")

\* events of one instant spelled in two ways and of the next second, with
\* durations of nothing, a quarter, a half and three quarters of a
\* microsecond, and of one and two seconds
TwiceEvents ==
    {[timestamp |-> ts0, duration |-> d, data |-> [app |-> "Code", title |-> "a"]]
        : d \in {0, 1, 2, 3, Seconds(1)}}
    \cup {[timestamp |-> tsZ, duration |-> d, data |-> [app |-> "Code", title |-> "a"]]
        : d \in {1, Seconds(1)}}
    \cup {[timestamp |-> ts1, duration |-> 1, data |-> [app |-> "Code", title |-> "bb"]],
          [timestamp |-> ts1, duration |-> Seconds(2), data |-> [app |-> "Mail", title |-> "bb"]]}

TwiceConfigs ==
    [min_duration_seconds     : {0, DefaultMinDuration},
     exclude_apps             : {None},
     remove_zero_duration     : BOOLEAN,
     deduplicate_simultaneous : BOOLEAN,
     merge_consecutive        : BOOLEAN,
     max_gap_seconds          : {DefaultMaxGap}]

InitTwice ==
    /\ input \in SeqsUpTo(TwiceEvents, MaxLen)
    /\ events = input
    /\ config \in TwiceConfigs
    /\ pc = "start"
    /\ filtered = <<>>
    /\ sorted_events = <<>>
    /\ current = EmptyDict
    /\ cur_src = 0
    /\ next_idx = 0
    /\ merged = <<>>
    /\ result = None
    /\ steps = <<>>

\* cleaned = filter_events(events, **options)
CleanOnce ==
    /\ pc = "start"
    /\ filtered' = FilterQ(input, config)
    /\ pc' = "once"
    /\ UNCHANGED <<input, events, config, sorted_events, current, cur_src,
                   next_idx, merged, steps, result>>

\* filter_events(cleaned, **options)
CleanTwice ==
    /\ pc = "once"
    /\ result' = FilterQ(filtered, config)
    /\ pc' = "twice"
    /\ UNCHANGED <<input, events, config, filtered, sorted_events, current,
                   cur_src, next_idx, merged, steps>>

NextTwice == CleanOnce \/ CleanTwice

SpecTwice == InitTwice /\ [][NextTwice]_vars

-----------------------------------------------------------------------------
(* Claims about filter_events applied twice *)

\* durations of whole seconds, in quanta
WholeSeconds(evs) == [k \in 1..Len(evs) |->
    IF "duration" \in DOMAIN evs[k]
    THEN SetKey(evs[k], "duration", Seconds(evs[k].duration)) ELSE evs[k]]

\* on durations of whole seconds the two models of filter_events agree
ModelsAgree ==
    pc = "done" => FilterQ(WholeSeconds(input), config) = WholeSeconds(result)

\* on durations of whole seconds a second cleaning changes nothing
WholeSecondsIdempotent ==
    pc = "done" => filter_events(result, config) = result

\* the second cleaning changes nothing unless the first one merged events
\* into one whose duration the thresholds reject
IdempotentUnlessMergedBelow ==
    pc = "twice" =>
        \/ result = filtered
        \/ /\ config.merge_consecutive
           /\ \E j \in 1..Len(filtered) :
                \/ config.remove_zero_duration /\ ~KeepsNonZero(filtered[j])
                \/ /\ config.min_duration_seconds > 0
                   /\ ~KeepsMinDuration(filtered[j],
                                        Seconds(config.min_duration_seconds))

\* C29: cleaning is idempotent: filter_events(filter_events(E, opts), opts)
\* equals filter_events(E, opts) for every event list E and every option set.
C29_CleaningIdempotent ==
    pc = "twice" => result = filtered


-----------------------------------------------------------------------------
(* Claims about the list merge_consecutive_events returns *)

\* output event j comes from input event i: the accumulator keeps the
\* timestamp and the app of the event it was copied from
HeadOf(j, i) ==
    /\ result[j].timestamp = input[i].timestamp
    /\ AppOf(result[j]) = AppOf(input[i])

\* the gap from the end of output event j to the start of the next one
OutputGap(j) ==
    ParseInstant(result[j + 1].timestamp)
        - (ParseInstant(result[j].timestamp) + Get(result[j], "duration", 0))

\* C30: the list merge_consecutive_events returns is in ascending order of
\* parsed instant, with input order kept among equal instants; it is not
\* empty when the input is not; and no two adjacent events of it could still
\* be merged: their data.app differ, or the gap from the end of the first to
\* the start of the second is negative or greater than max_gap_seconds.
C30_OutputSortedAndFullyMerged ==
    (pc = "done" /\ input # <<>>) =>
        /\ result # <<>>
        /\ \E h \in [1..Len(result) -> 1..Len(input)] :
             /\ \A j \in 1..Len(result) : HeadOf(j, h[j])
             /\ \A j, k \in 1..Len(result) : j < k =>
                  LET a == ParseInstant(input[h[j]].timestamp)
                      b == ParseInstant(input[h[k]].timestamp)
                  IN  a < b \/ (a = b /\ h[j] < h[k])
        /\ \A j \in 1..(Len(result) - 1) :
             \/ Get(Get(result[j], "data", EmptyDict), "app", None)
                  # Get(Get(result[j + 1], "data", EmptyDict), "app", None)
             \/ OutputGap(j) < 0
             \/ OutputGap(j) > config.max_gap_seconds

\* an input that was out of order came back as two events of one instant, the
\* second of them merged from two
C30_Witness ==
    /\ pc = "done"
    /\ Len(input) = 3
    /\ Len(result) = 2
    /\ ParseInstant(input[1].timestamp) > ParseInstant(input[2].timestamp)
    /\ ParseInstant(result[1].timestamp) = ParseInstant(result[2].timestamp)
    /\ result[2] \notin Range(input)

====
